---- MODULE Spec2Model ----
(***************************************************************************)
(* Freelance platform backend: the bid lifecycle (bids.service, gigs       *)
(* service) and the session lifecycle (auth.service, user.model) as state  *)
(* machines over the document store.                                       *)
(*                                                                         *)
(* Two granularities are modelled for each service.  The "Call" actions    *)
(* run one service method to completion (requests served one after the     *)
(* other).  The "Step" actions run one method up to its next await on the  *)
(* store, so that requests interleave at store-access granularity, which   *)
(* is how the single-threaded event loop schedules them.  Both are built   *)
(* from the same store operators.                                          *)
(***************************************************************************)
EXTENDS Integers, Sequences, FiniteSets, TLC

\* ------------------------------------------------------------------ bounds
NumUsers == 3       \* user ids known to the bid service
MaxGigs  == 2       \* gigs ever created
MaxBids  == 2       \* bids ever created
NumReq   == 2       \* requests in flight at the same time
ConcGigs == 1       \* gigs ever created while requests interleave
MaxUsers == 2       \* users ever registered
MaxClock == 1       \* seconds the clock runs
MaxResets == 2      \* reset tokens ever drawn

UserIds  == 1 .. NumUsers
GigIds   == 1 .. MaxGigs
BidIds   == 1 .. MaxBids
ReqIds   == 1 .. NumReq

\* Joi.number().min(5): the smallest amount a bid may carry, and one more
MinAmount == 5
Amounts   == {MinAmount, MinAmount + 1}

BidStatuses      == {"pending", "accepted", "rejected", "withdrawn"}
TerminalStatuses == BidStatuses \ {"pending"}
\* bidStatusSchema: the statuses a client may set
SettableStatuses == {"accepted", "rejected"}

VARIABLES
    gigs,      \* Gig collection: sequence indexed by gig id
    bids,      \* Bid collection: sequence indexed by bid id
    breq,      \* bid requests in flight (interleaved specification)
    users,     \* User collection: sequence indexed by user id
    now,       \* the clock, in seconds (the resolution of a token's iat)
    issued,    \* history: the refresh tokens returned to clients so far
    access,    \* history: the access tokens returned to clients so far
    areq,      \* auth requests in flight (interleaved specification)
    resets,    \* history: the number of reset tokens forgotPassword has drawn
    resp       \* the response to the request that completed last

bidVars  == <<gigs, bids, breq>>
authVars == <<users, now, issued, access, areq, resets>>
vars     == <<gigs, bids, breq, users, now, issued, access, areq, resets, resp>>

\* ------------------------------------------------------------ the store
\* ApiError(code, message), or the controller's status on success; `data`
\* holds what the response carries: the ids of the bids a read returns, the
\* reset token forgotPassword returns, the maxAge of the cookie login sets,
\* or the req.user a middleware hands on
NoResp == [code |-> 0, msg |-> "none", why |-> "", data |-> {}]
Resp(code, msg) == [code |-> code, msg |-> msg, why |-> "", data |-> {}]

NewGig(u) == [freelancerId |-> u, isActive |-> TRUE, exists |-> TRUE]

\* Gig.findById(g) / Gig.findOne({_id: g}) returns a document
GigFound(gs, g) == g \in DOMAIN gs /\ gs[g].exists

\* Gig.findOne({ _id: g, freelancerId: u }) returns a document
GigOwnedBy(gs, g, u) == GigFound(gs, g) /\ gs[g].freelancerId = u

\* Gig.findByIdAndUpdate(g, { isActive: a })
GigSetActive(gs, g, a) ==
    IF GigFound(gs, g) THEN [gs EXCEPT ![g].isActive = a] ELSE gs

\* what is left at the id of a deleted gig: no document
NoGig == [freelancerId |-> 0, isActive |-> FALSE, exists |-> FALSE]

\* Gig.findByIdAndDelete(g): the document is removed, its id is never reused
GigDelete(gs, g) ==
    IF GigFound(gs, g) THEN [gs EXCEPT ![g] = NoGig] ELSE gs

\* a bid document whose status does not start at the schema default
NewBidAccepted(g, f, c, a) ==
    [gigId |-> g, freelancerId |-> f, clientId |-> c, amount |-> a,
     status |-> "accepted"]

\* new Bid({...bidData, freelancerId, clientId}); status defaults to 'pending'
NewBid(g, f, c, a) ==
    [gigId |-> g, freelancerId |-> f, clientId |-> c, amount |-> a,
     status |-> "pending"]

\* Bid.findOne({ gigId, freelancerId }) returns a document
ExistingBid(bs, g, f) ==
    \E i \in DOMAIN bs : bs[i].gigId = g /\ bs[i].freelancerId = f

\* the bid collection without its unique index
NoUniqueIndex(bs, rec) == TRUE

\* the unique index { gigId: 1, freelancerId: 1 } admits the document
UniqueIndexAdmits(bs, rec) == ~ExistingBid(bs, rec.gigId, rec.freelancerId)

\* bid.save(): insert, refused by the unique index with E11000
BidSave(bs, rec) == IF UniqueIndexAdmits(bs, rec) THEN Append(bs, rec) ELSE bs

\* the freelancer's lookup with its status filter left out
BidOfFreelancerAnyStatus(bs, b, f) == b \in DOMAIN bs /\ bs[b].freelancerId = f

\* Bid.findOne({ _id: b, freelancerId: f, status: 'pending' }) returns a document
PendingBidOfFreelancer(bs, b, f) ==
    b \in DOMAIN bs /\ bs[b].freelancerId = f /\ bs[b].status = "pending"

\* the client's lookup with its clientId filter left out
PendingBidOfAnyClient(bs, b, c) == b \in DOMAIN bs /\ bs[b].status = "pending"

\* Bid.findOne({ _id: b, clientId: c, status: 'pending' }) returns a document
PendingBidOfClient(bs, b, c) ==
    b \in DOMAIN bs /\ bs[b].clientId = c /\ bs[b].status = "pending"

\* the cascade with its status filter left out
RejectOthersAnyStatus(bs, g, b) ==
    [i \in DOMAIN bs |->
        IF bs[i].gigId = g /\ i # b
        THEN [bs[i] EXCEPT !.status = "rejected"]
        ELSE bs[i]]

\* Bid.updateMany({ gigId: g, status: 'pending', _id: { $ne: b } }, { status: 'rejected' })
RejectOtherPending(bs, g, b) ==
    [i \in DOMAIN bs |->
        IF bs[i].gigId = g /\ bs[i].status = "pending" /\ i # b
        THEN [bs[i] EXCEPT !.status = "rejected"]
        ELSE bs[i]]

\* Bid.findByIdAndUpdate(b, { status: s }): no filter on the current status
BidSetStatus(bs, b, s) ==
    IF b \in DOMAIN bs THEN [bs EXCEPT ![b].status = s] ELSE bs

\* Bid.findByIdAndUpdate(b, updateData): updateBidSchema admits amount,
\* deliveryTime, proposal and attachments only
BidSetAmount(bs, b, a) ==
    IF b \in DOMAIN bs THEN [bs EXCEPT ![b].amount = a] ELSE bs

\* ---------------------------------------------- calls run to completion
IdleReq == [op |-> "idle", pc |-> "idle", bid |-> 0, gig |-> 0, who |-> 0,
            arg |-> "none", amount |-> 0, client |-> 0]

\* the controllers' responses to a call that did not throw
Created == Resp(201, "created")
Ok      == Resp(200, "ok")

\* the ApiErrors the gig and bid services throw
GigNotYours    == Resp(404, "Gig not found or you do not have permission")
GigNotActive   == Resp(404, "Gig not found or is not active")
OwnGig         == Resp(400, "You cannot bid on your own gig")
AlreadyBid     == Resp(400, "You have already placed a bid on this gig")
BidNotPending  == Resp(404, "Bid not found or cannot be updated (only pending bids can be updated)")
BidNotWithdrawable == Resp(404, "Bid not found or cannot be withdrawn (only pending bids can be withdrawn)")
\* the store's duplicate key error, which no service catches
DuplicateKey   == Resp(500, "E11000 duplicate key error")

\* GigsService.createGig
CreateGigCall(u) ==
    /\ Len(gigs) < MaxGigs
    /\ gigs' = Append(gigs, NewGig(u))
    /\ resp' = Created
    /\ UNCHANGED <<bids, breq, authVars>>

\* GigsService.updateGig with updateData = { isActive: a }
UpdateGigCall(g, u, a) ==
    /\ IF GigOwnedBy(gigs, g, u)
       THEN gigs' = GigSetActive(gigs, g, a) /\ resp' = Ok
       ELSE gigs' = gigs /\ resp' = GigNotYours
    /\ UNCHANGED <<bids, breq, authVars>>

\* GigsService.deleteGig
DeleteGigCall(g, u) ==
    /\ IF GigOwnedBy(gigs, g, u)
       THEN gigs' = GigDelete(gigs, g) /\ resp' = Ok
       ELSE gigs' = gigs /\ resp' = GigNotYours
    /\ UNCHANGED <<bids, breq, authVars>>

\* the gig lookup without the owner check
CreateBidGigCheckAnyBidder(gs, g, f) ==
    IF ~(GigFound(gs, g) /\ gs[g].isActive) THEN GigNotActive ELSE Ok

\* BidsService.createBid, first await: the gig lookup and the owner check
CreateBidGigCheck(gs, g, f) ==
    IF ~(GigFound(gs, g) /\ gs[g].isActive) THEN GigNotActive
    ELSE IF gs[g].freelancerId = f THEN OwnGig
    ELSE Ok

\* an existing-bid check that lets a freelancer bid again once the earlier
\* bid is no longer pending
CreateBidExistingCheckPendingOnly(bs, g, f) ==
    IF \E i \in DOMAIN bs :
          bs[i].gigId = g /\ bs[i].freelancerId = f /\ bs[i].status = "pending"
    THEN AlreadyBid ELSE Ok

\* BidsService.createBid, second await: the lookup of an existing bid
CreateBidExistingCheck(bs, g, f) == IF ExistingBid(bs, g, f) THEN AlreadyBid ELSE Ok

\* BidsService.createBid, third await: bid.save()
CreateBidSaveResult(bs, rec) == IF UniqueIndexAdmits(bs, rec) THEN Created ELSE DuplicateKey

\* the response of BidsService.createBid(g, f) run to completion on (gs, bs)
CreateBidResp(gs, bs, g, f) ==
    IF CreateBidGigCheck(gs, g, f) # Ok THEN CreateBidGigCheck(gs, g, f)
    ELSE IF CreateBidExistingCheck(bs, g, f) # Ok THEN CreateBidExistingCheck(bs, g, f)
    ELSE CreateBidSaveResult(bs, NewBid(g, f, gs[g].freelancerId, MinAmount))

\* BidsService.createBid
CreateBidCall(g, f, a) ==
    /\ resp' = CreateBidResp(gigs, bids, g, f)
    /\ IF CreateBidResp(gigs, bids, g, f) = Created
       THEN /\ Len(bids) < MaxBids
            /\ bids' = BidSave(bids, NewBid(g, f, gigs[g].freelancerId, a))
       ELSE bids' = bids
    /\ UNCHANGED <<gigs, breq, authVars>>

\* BidsService.updateBid with updateData = { amount: a }
UpdateBidCall(b, f, a) ==
    /\ IF PendingBidOfFreelancer(bids, b, f)
       THEN bids' = BidSetAmount(bids, b, a) /\ resp' = Ok
       ELSE bids' = bids /\ resp' = BidNotPending
    /\ UNCHANGED <<gigs, breq, authVars>>

\* a cascade that runs whatever the new status is
CascadeOnAnyStatus(bs, b, g, s) == RejectOtherPending(bs, g, b)

\* BidsService.updateBidStatus, the cascade: runs only when accepting
Cascade(bs, b, g, s) == IF s = "accepted" THEN RejectOtherPending(bs, g, b) ELSE bs

\* BidsService.updateBidStatus
UpdateBidStatusCall(b, s, c) ==
    /\ IF PendingBidOfClient(bids, b, c)
       THEN /\ bids' = BidSetStatus(Cascade(bids, b, bids[b].gigId, s), b, s)
            /\ resp' = Ok
       ELSE bids' = bids /\ resp' = BidNotPending
    /\ UNCHANGED <<gigs, breq, authVars>>

\* BidsService.withdrawBid
WithdrawBidCall(b, f) ==
    /\ IF PendingBidOfFreelancer(bids, b, f)
       THEN bids' = BidSetStatus(bids, b, "withdrawn") /\ resp' = Ok
       ELSE bids' = bids /\ resp' = BidNotWithdrawable
    /\ UNCHANGED <<gigs, breq, authVars>>

\* ------------------------------------------------------ the bid reads
\* the role the controller takes from the caller's access token
Roles == {"freelancer", "client"}
\* query.status: a status, or none
StatusFilters == {"any", "pending", "accepted"}
\* query.gigId: a gig id, or none (0)
GigFilters == {0} \cup GigIds
\* query.limit: one bid a page, or the default
Limits == {1, 10}

\* a read's success response with the bids it returns
Found(ids) == [code |-> 200, msg |-> "ok", why |-> "", data |-> ids]
BidNotFound   == Resp(404, "Bid not found")
BidForbidden  == Resp(403, "You do not have permission to view this bid")
GigBidsNotYours == Resp(404, "Gig not found or you do not have permission to view its bids")

\* .sort({ createdAt: -1 }).skip(0).limit(n): the n newest of ids
FirstPage(ids, n) == {i \in ids : Cardinality({j \in ids : j > i}) < n}

\* getBidById that returns the bid to any caller
GetBidByIdAnyCaller(bs, b, u) ==
    IF b \notin DOMAIN bs THEN BidNotFound ELSE Found({b})

\* BidsService.getBidById
GetBidById(bs, b, u) ==
    IF b \notin DOMAIN bs THEN BidNotFound
    ELSE IF bs[b].freelancerId # u /\ bs[b].clientId # u THEN BidForbidden
    ELSE Found({b})

\* BidsService.getBids: the filter built from the role and the query
BidsFilter(bs, st, g, u, role) ==
    {i \in DOMAIN bs :
        /\ IF role = "freelancer" THEN bs[i].freelancerId = u ELSE bs[i].clientId = u
        /\ st = "any" \/ bs[i].status = st
        /\ g = 0 \/ bs[i].gigId = g}

\* BidsService.getBids
GetBids(bs, st, g, n, u, role) == Found(FirstPage(BidsFilter(bs, st, g, u, role), n))

\* BidsService.getGigBids
GetGigBids(gs, bs, g, c, n) ==
    IF ~GigOwnedBy(gs, g, c) THEN GigBidsNotYours
    ELSE Found(FirstPage({i \in DOMAIN bs : bs[i].gigId = g}, n))

GetBidByIdCall(b, u) ==
    /\ resp' = GetBidById(bids, b, u)
    /\ UNCHANGED <<gigs, bids, breq, authVars>>

GetBidsCall(st, g, n, u, role) ==
    /\ resp' = GetBids(bids, st, g, n, u, role)
    /\ UNCHANGED <<gigs, bids, breq, authVars>>

GetGigBidsCall(g, c, n) ==
    /\ resp' = GetGigBids(gigs, bids, g, c, n)
    /\ UNCHANGED <<gigs, bids, breq, authVars>>

IdleAuth == [op |-> "idle", pc |-> "idle", uid |-> 0, email |-> "", password |-> "",
             role |-> "", token |-> <<>>, presented |-> <<>>, at |-> 0]

Init ==
    /\ gigs = <<>>
    /\ bids = <<>>
    /\ breq = [r \in ReqIds |-> IdleReq]
    /\ users = <<>>
    /\ now = 0
    /\ issued = {}
    /\ access = {}
    /\ areq = [r \in ReqIds |-> IdleAuth]
    /\ resets = 0
    /\ resp = NoResp

BidSeqNext ==
    \/ \E u \in UserIds : CreateGigCall(u)
    \/ \E g \in GigIds, u \in UserIds, a \in BOOLEAN : UpdateGigCall(g, u, a)
    \/ \E g \in GigIds, u \in UserIds : DeleteGigCall(g, u)
    \/ \E g \in GigIds, f \in UserIds, a \in Amounts : CreateBidCall(g, f, a)
    \/ \E b \in BidIds, f \in UserIds, a \in Amounts : UpdateBidCall(b, f, a)
    \/ \E b \in BidIds, s \in SettableStatuses, c \in UserIds : UpdateBidStatusCall(b, s, c)
    \/ \E b \in BidIds, f \in UserIds : WithdrawBidCall(b, f)

\* requests served one after the other
BidSeqSpec == Init /\ [][BidSeqNext]_vars

\* ------------------------------------- bid updates with arbitrary bodies
\* req.body of PUT on a bid: an amount, and a clientId key or none (0);
\* clientId stands for every key updateBidSchema does not name (gigId,
\* freelancerId, clientId, status)
NoClient == 0
BidBodies == {[amount |-> a, clientId |-> c] : a \in Amounts, c \in {NoClient} \cup UserIds}

\* Joi's error for a key the schema does not name: '"clientId" is not allowed'
ClientNotAllowed == Resp(400, "clientId is not allowed")

\* an update schema that names clientId among its keys
UpdateBidValidateAdmitsClient(body) == Ok

\* updateBidSchema.validate(req.body): the schema names amount, deliveryTime,
\* proposal and attachments, and refuses every other key
UpdateBidValidate(body) == IF body.clientId # NoClient THEN ClientNotAllowed ELSE Ok

\* Bid.findByIdAndUpdate(b, updateData): $set of every key updateData carries
BidUpdate(bs, b, value) ==
    IF b \in DOMAIN bs
    THEN [bs EXCEPT ![b].amount = value.amount,
                    ![b].clientId = IF value.clientId = NoClient THEN @ ELSE value.clientId]
    ELSE bs

\* BidsController.updateBid: the body is validated, then BidsService.updateBid
\* writes the validated value
UpdateBidRequest(b, f, body) ==
    /\ IF UpdateBidValidate(body) # Ok
       THEN bids' = bids /\ resp' = UpdateBidValidate(body)
       ELSE IF PendingBidOfFreelancer(bids, b, f)
       THEN bids' = BidUpdate(bids, b, body) /\ resp' = Ok
       ELSE bids' = bids /\ resp' = BidNotPending
    /\ UNCHANGED <<gigs, breq, authVars>>

BidFrameNext ==
    \/ \E u \in UserIds : CreateGigCall(u)
    \/ \E g \in GigIds, u \in UserIds, a \in BOOLEAN : UpdateGigCall(g, u, a)
    \/ \E g \in GigIds, u \in UserIds : DeleteGigCall(g, u)
    \/ \E g \in GigIds, f \in UserIds : CreateBidCall(g, f, MinAmount)
    \/ \E b \in BidIds, f \in UserIds, body \in BidBodies : UpdateBidRequest(b, f, body)
    \/ \E b \in BidIds, s \in SettableStatuses, c \in UserIds : UpdateBidStatusCall(b, s, c)
    \/ \E b \in BidIds, f \in UserIds : WithdrawBidCall(b, f)

\* the gig and bid calls, served one after the other, with update bodies
\* that do and do not carry a key the schema does not name
BidFrameSpec == Init /\ [][BidFrameNext]_vars

\* ------------------------------------- requests interleaved at each await
\* A request occupies a slot from its first await on the store to its last.
\* A request whose first lookup throws responds at once and never occupies
\* a slot.
Idle(r)     == breq[r].op = "idle"
\* slots are interchangeable: a new request takes the lowest idle one
FreeSlot(r) == Idle(r) /\ \A q \in ReqIds : q < r => ~Idle(q)
Release(r)  == breq' = [breq EXCEPT ![r] = IdleReq]
At(r, op, pc) == breq[r].op = op /\ breq[r].pc = pc

\* createBid requests that have not saved yet
PendingSaves == Cardinality({q \in ReqIds : breq[q].op = "createBid"})

\* createBid up to `await Gig.findById`, the owner check included
CreateBidStart(r, g, f, a) ==
    /\ FreeSlot(r)
    /\ Len(bids) + PendingSaves < MaxBids
    /\ IF CreateBidGigCheck(gigs, g, f) = Ok
       THEN /\ breq' = [breq EXCEPT ![r] =
                 [IdleReq EXCEPT !.op = "createBid", !.pc = "findExisting",
                                 !.gig = g, !.who = f, !.amount = a,
                                 !.client = gigs[g].freelancerId]]
            /\ resp' = resp
       ELSE breq' = breq /\ resp' = CreateBidGigCheck(gigs, g, f)
    /\ UNCHANGED <<gigs, bids, authVars>>

\* createBid up to `await Bid.findOne({ gigId, freelancerId })`
CreateBidFindExisting(r) ==
    /\ At(r, "createBid", "findExisting")
    /\ IF CreateBidExistingCheck(bids, breq[r].gig, breq[r].who) = Ok
       THEN breq' = [breq EXCEPT ![r].pc = "save"] /\ resp' = resp
       ELSE Release(r) /\ resp' = AlreadyBid
    /\ UNCHANGED <<gigs, bids, authVars>>

\* the document createBid saves: clientId is the owner read at the start
BidToSave(r) == NewBid(breq[r].gig, breq[r].who, breq[r].client, breq[r].amount)

\* createBid up to `await bid.save()`
CreateBidSave(r) ==
    /\ At(r, "createBid", "save")
    /\ bids' = BidSave(bids, BidToSave(r))
    /\ resp' = CreateBidSaveResult(bids, BidToSave(r))
    /\ Release(r)
    /\ UNCHANGED <<gigs, authVars>>

\* updateBid up to `await Bid.findOne`
UpdateBidStart(r, b, f, a) ==
    /\ FreeSlot(r)
    /\ IF PendingBidOfFreelancer(bids, b, f)
       THEN /\ breq' = [breq EXCEPT ![r] =
                 [IdleReq EXCEPT !.op = "updateBid", !.pc = "write",
                                 !.bid = b, !.who = f, !.amount = a]]
            /\ resp' = resp
       ELSE breq' = breq /\ resp' = BidNotPending
    /\ UNCHANGED <<gigs, bids, authVars>>

\* updateBid: `Bid.findByIdAndUpdate(bidId, updateData)`
UpdateBidWrite(r) ==
    /\ At(r, "updateBid", "write")
    /\ bids' = BidSetAmount(bids, breq[r].bid, breq[r].amount)
    /\ resp' = Ok
    /\ Release(r)
    /\ UNCHANGED <<gigs, authVars>>

\* updateBidStatus up to `await Bid.findOne`
UpdateBidStatusStart(r, b, s, c) ==
    /\ FreeSlot(r)
    /\ IF PendingBidOfClient(bids, b, c)
       THEN /\ breq' = [breq EXCEPT ![r] =
                 [IdleReq EXCEPT !.op = "updateBidStatus",
                                 !.pc = IF s = "accepted" THEN "cascade" ELSE "write",
                                 !.bid = b, !.who = c, !.arg = s,
                                 !.gig = bids[b].gigId]]
            /\ resp' = resp
       ELSE breq' = breq /\ resp' = BidNotPending
    /\ UNCHANGED <<gigs, bids, authVars>>

\* updateBidStatus up to `await Bid.updateMany`
UpdateBidStatusCascade(r) ==
    /\ At(r, "updateBidStatus", "cascade")
    /\ bids' = Cascade(bids, breq[r].bid, breq[r].gig, breq[r].arg)
    /\ breq' = [breq EXCEPT ![r].pc = "write"]
    /\ UNCHANGED <<gigs, resp, authVars>>

\* updateBidStatus: `Bid.findByIdAndUpdate(bidId, { status })`
UpdateBidStatusWrite(r) ==
    /\ At(r, "updateBidStatus", "write")
    /\ bids' = BidSetStatus(bids, breq[r].bid, breq[r].arg)
    /\ resp' = Ok
    /\ Release(r)
    /\ UNCHANGED <<gigs, authVars>>

\* withdrawBid up to `await Bid.findOne`
WithdrawBidStart(r, b, f) ==
    /\ FreeSlot(r)
    /\ IF PendingBidOfFreelancer(bids, b, f)
       THEN /\ breq' = [breq EXCEPT ![r] =
                 [IdleReq EXCEPT !.op = "withdrawBid", !.pc = "write",
                                 !.bid = b, !.who = f]]
            /\ resp' = resp
       ELSE breq' = breq /\ resp' = BidNotWithdrawable
    /\ UNCHANGED <<gigs, bids, authVars>>

\* withdrawBid: `Bid.findByIdAndUpdate(bidId, { status: 'withdrawn' })`
WithdrawBidWrite(r) ==
    /\ At(r, "withdrawBid", "write")
    /\ bids' = BidSetStatus(bids, breq[r].bid, "withdrawn")
    /\ resp' = Ok
    /\ Release(r)
    /\ UNCHANGED <<gigs, authVars>>

\* the gig service's writes, each one store access; the ownership lookup that
\* precedes a write reads the owner, which no operation changes
GigWrite ==
    \/ \E u \in UserIds :
          Len(gigs) < ConcGigs /\ gigs' = Append(gigs, NewGig(u))
    \/ \E g \in 1 .. ConcGigs, a \in BOOLEAN :
          GigFound(gigs, g) /\ gigs' = GigSetActive(gigs, g, a)
    \/ \E g \in 1 .. ConcGigs :
          GigFound(gigs, g) /\ gigs' = GigDelete(gigs, g)

GigStep == GigWrite /\ UNCHANGED <<bids, breq, resp, authVars>>

BidConcNext ==
    \/ GigStep
    \/ \E r \in ReqIds, g \in 1 .. ConcGigs, f \in UserIds, a \in Amounts :
          CreateBidStart(r, g, f, a)
    \/ \E r \in ReqIds : CreateBidFindExisting(r)
    \/ \E r \in ReqIds : CreateBidSave(r)
    \/ \E r \in ReqIds, b \in BidIds, f \in UserIds, a \in Amounts :
          UpdateBidStart(r, b, f, a)
    \/ \E r \in ReqIds : UpdateBidWrite(r)
    \/ \E r \in ReqIds, b \in BidIds, s \in SettableStatuses, c \in UserIds :
          UpdateBidStatusStart(r, b, s, c)
    \/ \E r \in ReqIds : UpdateBidStatusCascade(r)
    \/ \E r \in ReqIds : UpdateBidStatusWrite(r)
    \/ \E r \in ReqIds, b \in BidIds, f \in UserIds : WithdrawBidStart(r, b, f)
    \/ \E r \in ReqIds : WithdrawBidWrite(r)

\* requests interleaved at store-access granularity
BidConcSpec == Init /\ [][BidConcNext]_vars

\* ------------------------------- status requests with arbitrary bodies
\* Joi's message for a status outside valid('accepted', 'rejected')
StatusNotAllowed == Resp(400, "Status must be either accepted or rejected")

\* a status schema that admits every status of the bid schema
BidStatusValidateAnyStatus(s) == Ok

\* bidStatusSchema.validate(req.body)
BidStatusValidate(s) == IF s \in SettableStatuses THEN Ok ELSE StatusNotAllowed

\* BidsController.updateBidStatus up to the service's `await Bid.findOne`:
\* the body is validated, then BidsService.updateBidStatus starts
UpdateBidStatusRequest(r, b, s, c) ==
    IF BidStatusValidate(s) # Ok
    THEN /\ FreeSlot(r)
         /\ resp' = BidStatusValidate(s)
         /\ UNCHANGED <<gigs, bids, breq, authVars>>
    ELSE UpdateBidStatusStart(r, b, s, c)

BidLifeNext ==
    \/ GigStep
    \/ \E r \in ReqIds, g \in 1 .. ConcGigs, f \in UserIds :
          CreateBidStart(r, g, f, MinAmount)
    \/ \E r \in ReqIds : CreateBidFindExisting(r)
    \/ \E r \in ReqIds : CreateBidSave(r)
    \/ \E r \in ReqIds, b \in BidIds, f \in UserIds :
          UpdateBidStart(r, b, f, MinAmount + 1)
    \/ \E r \in ReqIds : UpdateBidWrite(r)
    \/ \E r \in ReqIds, b \in BidIds, s \in BidStatuses, c \in UserIds :
          UpdateBidStatusRequest(r, b, s, c)
    \/ \E r \in ReqIds : UpdateBidStatusCascade(r)
    \/ \E r \in ReqIds : UpdateBidStatusWrite(r)
    \/ \E r \in ReqIds, b \in BidIds, f \in UserIds : WithdrawBidStart(r, b, f)
    \/ \E r \in ReqIds : WithdrawBidWrite(r)

\* bid requests interleaved at store-access granularity, status requests
\* arriving with every status of the schema in their body
BidLifeSpec == Init /\ [][BidLifeNext]_vars

\* ------------------------------------------- acceptances interleaved
AcceptNext ==
    \/ GigStep
    \/ \E r \in ReqIds, g \in 1 .. ConcGigs, f \in UserIds :
          CreateBidStart(r, g, f, MinAmount)
    \/ \E r \in ReqIds : CreateBidFindExisting(r)
    \/ \E r \in ReqIds : CreateBidSave(r)
    \/ \E r \in ReqIds, b \in BidIds, c \in UserIds :
          UpdateBidStatusStart(r, b, "accepted", c)
    \/ \E r \in ReqIds : UpdateBidStatusCascade(r)
    \/ \E r \in ReqIds : UpdateBidStatusWrite(r)

\* bids are placed and clients accept them, requests interleaved at
\* store-access granularity; no bid is rejected directly or withdrawn, so a
\* bid is rejected only by the cascade of an acceptance
AcceptSpec == Init /\ [][AcceptNext]_vars

\* ------------------------------------------------- users and tokens
\* the addresses requests carry; two of them differ in case only
EmailInputs == {"a@x.io", "A@x.io", "b@x.io"}
Passwords   == {"Pw1", "Pw2"}
\* the passwords users register with; the other one is a wrong guess at login
RegisterPasswords == {"Pw1"}
\* the role the accounts of the session specifications register with
RegisterRoles == {"freelancer"}
\* the values a profile field takes
Bios == {"", "about me"}
\* req.body of PUT /profile: a bio, and a role key or none
NoRole == "absent"
ProfileBodies == {[bio |-> b, role |-> r] : b \in Bios, r \in {NoRole} \cup Roles}
\* the bodies that carry profile fields only
PlainBodies == {body \in ProfileBodies : body.role = NoRole}

\* the email schema's `lowercase: true` setter, applied to documents and to
\* query filters
Lower(e) == IF e = "A@x.io" THEN "a@x.io" ELSE e

\* bcrypt.hash in the pre('save') hook, run when the password is modified
Hash(p) == <<"bcrypt", p>>

\* a password field holds a sequence: <<p>> is the plaintext p as assigned to
\* the document, and each bcrypt.hash puts one "bcrypt" in front of it
Plain(p)  == <<p>>
Bcrypt(s) == <<"bcrypt">> \o s

\* a pre('save') hook that hashes on every save
HashOnEverySave(pw, modified) == Bcrypt(pw)

\* the pre('save') hook: hashes this.password only when it is modified
HashOnSave(pw, modified) == IF modified THEN Bcrypt(pw) ELSE pw

\* bcrypt.compare(candidate, this.password)
ComparePassword(p, stored) == stored = Hash(p)

NoToken == <<>>
NoTime  == 0 - 1

\* forgotPassword's expiry, Date.now() + 10 * 60 * 1000, in seconds
ResetTTL == 10 * 60

\* crypto.createHash('sha256').update(resetToken).digest('hex'); the reset
\* token itself is crypto.randomBytes(32), here the k-th one drawn
Sha256(k) == <<"sha256", k>>

\* config.jwt.refreshExpiresIn = '30d', in seconds
RefreshTTL == 30 * 24 * 60 * 60

\* jwt.sign({ userId }, refreshSecret, { expiresIn }) at clock t: the payload is
\* { userId, iat: t, exp: t + ttl } and HS256 has no nonce, so the token is a
\* function of the user and of the second it is signed in
GenerateRefreshToken(u, t) == <<"refresh", u, t>>

\* generateAuthToken: jwt.sign({ userId, email, role }, secret, { expiresIn })
\* at clock t; the claims the middleware reads are the user's id and role,
\* and jwt.verify reads the second it was signed in
GenerateAuthToken(u, role, t) == <<"access", u, role, t>>

\* a string no secret of the server has signed
ForgedToken(u) == <<"forged", u, 0>>

\* a verification that checks the signature only
VerifyRefreshNoExpiry(tok, t) == tok[1] = "refresh"

\* jwt.verify(token, refreshSecret) at clock t: signature and expiry
VerifyRefresh(tok, t) == tok[1] = "refresh" /\ t < tok[3] + RefreshTTL

NewUser(e, p, role) ==
    [email |-> Lower(e), password |-> HashOnSave(Plain(p), TRUE), role |-> role,
     isActive |-> TRUE, refreshToken |-> NoToken, lastLogin |-> NoTime,
     passwordResetToken |-> NoToken, passwordResetExpires |-> NoTime,
     bio |-> ""]

\* User.findOne({ email }): the ids it matches
UsersWithEmail(us, e) == {i \in DOMAIN us : us[i].email = Lower(e)}

\* User.findOne({ email, isActive: true }): the ids it matches
ActiveUsersWithEmail(us, e) == {i \in UsersWithEmail(us, e) : us[i].isActive}

\* findOne returns the first document that matches
First(ids) == CHOOSE i \in ids : \A j \in ids : i <= j

\* the user collection without the unique index on email
NoEmailIndex(us, rec) == TRUE

\* the unique index on email (`unique: true`) admits the document
EmailIndexAdmits(us, rec) == \A i \in DOMAIN us : us[i].email # rec.email

\* user.save() of a new document: insert, refused by the unique index
UserInsert(us, rec) == IF EmailIndexAdmits(us, rec) THEN Append(us, rec) ELSE us

\* user.save() after `user.refreshToken = tok`: $set of the modified path
SetRefreshToken(us, u, tok) ==
    [us EXCEPT ![u].refreshToken = tok, ![u].password = HashOnSave(@, FALSE)]

\* user.save() after login set lastLogin and refreshToken
SetLogin(us, u, tok, t) ==
    [us EXCEPT ![u].refreshToken = tok, ![u].lastLogin = t,
               ![u].password = HashOnSave(@, FALSE)]

\* logout that leaves the stored token in place
KeepRefreshToken(us, u) == us

\* User.findByIdAndUpdate(u, { $unset: { refreshToken: 1 } })
UnsetRefreshToken(us, u) ==
    IF u \in DOMAIN us THEN [us EXCEPT ![u].refreshToken = NoToken] ELSE us

\* deactivation that only unsets the token
DeactivateKeepsActive(us, u) == UnsetRefreshToken(us, u)

\* User.findByIdAndUpdate(u, { isActive: false, $unset: { refreshToken: 1 } })
Deactivate(us, u) ==
    IF u \in DOMAIN us
    THEN [us EXCEPT ![u].isActive = FALSE, ![u].refreshToken = NoToken]
    ELSE us

\* a forgotPassword that stores the token as it returns it
SetResetFieldsUnhashed(us, u, k, t) ==
    [us EXCEPT ![u].passwordResetToken = <<"plain", k>>,
               ![u].passwordResetExpires = t + ResetTTL]

\* user.save() after forgotPassword set the hashed token and its expiry
SetResetFields(us, u, k, t) ==
    [us EXCEPT ![u].passwordResetToken = Sha256(k),
               ![u].passwordResetExpires = t + ResetTTL,
               ![u].password = HashOnSave(@, FALSE)]

\* a reset lookup that still admits a token at the instant it expires
ResetUsersUntilExpiry(us, k, t) ==
    {i \in DOMAIN us : /\ us[i].passwordResetToken = Sha256(k)
                       /\ us[i].passwordResetExpires >= t
                       /\ us[i].isActive}

\* a lookup that also honours the tokens issued before the stored one
ResetUsersEarlierTokens(us, k, t) ==
    {i \in DOMAIN us : /\ us[i].passwordResetToken # NoToken
                       /\ k >= 1 /\ us[i].passwordResetToken[2] >= k
                       /\ us[i].passwordResetExpires > t
                       /\ us[i].isActive}

\* User.findOne({ passwordResetToken: hashedToken,
\*                passwordResetExpires: { $gt: new Date() }, isActive: true })
ResetUsers(us, k, t) ==
    {i \in DOMAIN us : /\ us[i].passwordResetToken = Sha256(k)
                       /\ us[i].passwordResetExpires > t
                       /\ us[i].isActive}

\* a reset save that clears the token and leaves its expiry
SetPasswordClearTokenOnly(us, u, p) ==
    [us EXCEPT ![u].password = HashOnSave(Plain(p), TRUE),
               ![u].passwordResetToken = NoToken]

\* user.save() after resetPassword set the password and set both reset
\* fields to undefined: $set of the hashed password, $unset of both fields
SetPasswordClearReset(us, u, p) ==
    [us EXCEPT ![u].password = HashOnSave(Plain(p), TRUE),
               ![u].passwordResetToken = NoToken,
               ![u].passwordResetExpires = NoTime]

\* a password change that also ends the user's session
SetPasswordEndsSessions(us, u, p) ==
    [us EXCEPT ![u].password = HashOnSave(Plain(p), TRUE),
               ![u].refreshToken = NoToken]

\* user.save() after changePassword set user.password
SetPassword(us, u, p) == [us EXCEPT ![u].password = HashOnSave(Plain(p), TRUE)]

\* User.findByIdAndUpdate(u, updateData): $set of every key updateData
\* carries; bio stands for the fields updateProfileSchema names
SetProfile(us, u, value) ==
    [us EXCEPT ![u].bio = value.bio,
               ![u].role = IF value.role = NoRole THEN @ ELSE value.role]

\* the auth controller's responses and the ApiErrors of the auth service
Registered    == Resp(201, "User registered successfully")
LoggedIn      == Resp(200, "Login successful")
LoggedOut     == Resp(200, "Logout successful")
Refreshed     == Resp(200, "Token refreshed successfully")
Deactivated   == Resp(200, "Account deactivated successfully")
UserExists    == Resp(400, "User already exists with this email")
InvalidRefresh == Resp(401, "Invalid refresh token")
InvalidLogin(why) ==
    [code |-> 401, msg |-> "Invalid email or password", why |-> why, data |-> {}]
PasswordChanged  == Resp(200, "Password changed successfully")
\* data.resetToken is the plaintext token, here its number k
ResetTokenIssued(k) ==
    [code |-> 200, msg |-> "Password reset token generated successfully",
     why |-> "", data |-> {k}]
PasswordReset    == Resp(200, "Password reset successfully")
ProfileUpdated   == Resp(200, "Profile updated successfully")
WrongCurrent     == Resp(400, "Current password is incorrect")
NoSuchEmail      == Resp(404, "No user found with this email address")
InvalidReset     == Resp(400, "Invalid or expired reset token")
NotAuthenticated == Resp(401, "User no longer exists or is inactive")

\* login that tells a wrong password from an unknown email
LoginCheckTelling(us, e, p) ==
    IF ActiveUsersWithEmail(us, e) = {}
    THEN IF UsersWithEmail(us, e) = {} THEN InvalidLogin("unknown email")
         ELSE InvalidLogin("inactive user")
    ELSE IF ~ComparePassword(p, us[First(ActiveUsersWithEmail(us, e))].password)
    THEN [code |-> 401, msg |-> "Wrong password", why |-> "wrong password", data |-> {}]
    ELSE Ok

\* AuthService.login up to the password check.  `why` is not part of the
\* response: it records which branch threw.
LoginCheck(us, e, p) ==
    IF ActiveUsersWithEmail(us, e) = {}
    THEN IF UsersWithEmail(us, e) = {} THEN InvalidLogin("unknown email")
         ELSE InvalidLogin("inactive user")
    ELSE IF ~ComparePassword(p, us[First(ActiveUsersWithEmail(us, e))].password)
    THEN InvalidLogin("wrong password")
    ELSE Ok

\* AuthService.refreshToken up to its lookup:
\* jwt.verify, then User.findOne({ _id, refreshToken, isActive: true })
RefreshCheck(us, tok, t) ==
    IF ~VerifyRefresh(tok, t) THEN InvalidRefresh
    ELSE IF ~(/\ tok[2] \in DOMAIN us
              /\ us[tok[2]].refreshToken = tok
              /\ us[tok[2]].isActive) THEN InvalidRefresh
    ELSE Ok

\* AuthService.register up to its lookup: User.findOne({ email })
RegisterCheck(us, e) == IF UsersWithEmail(us, e) # {} THEN UserExists ELSE Ok

\* the authenticate middleware: the token's user exists and is active
Authenticate(us, u) ==
    IF u \in DOMAIN us /\ us[u].isActive THEN Ok ELSE NotAuthenticated

\* Joi's error for a key the schema does not name: '"role" is not allowed'
RoleNotAllowed == Resp(400, "role is not allowed")

\* a profile schema that names role among its keys
UpdateProfileValidateAdmitsRole(body) == Ok

\* updateProfileSchema.validate(req.body): a Joi object schema refuses every
\* key it does not name, and it does not name role
UpdateProfileValidate(body) == IF body.role # NoRole THEN RoleNotAllowed ELSE Ok

\* changePassword that does not verify the current password
ChangePasswordCheckAnyCurrent(us, u, cur) == Authenticate(us, u)

\* authenticate, then AuthService.changePassword up to comparePassword
ChangePasswordCheck(us, u, cur) ==
    IF Authenticate(us, u) # Ok THEN Authenticate(us, u)
    ELSE IF ~ComparePassword(cur, us[u].password) THEN WrongCurrent
    ELSE Ok

\* AuthService.forgotPassword up to its lookup
ForgotCheck(us, e) == IF ActiveUsersWithEmail(us, e) = {} THEN NoSuchEmail ELSE Ok

\* AuthService.resetPassword up to its lookup
ResetCheck(us, k, t) == IF ResetUsers(us, k, t) = {} THEN InvalidReset ELSE Ok

\* the reset tokens a client can present: those drawn so far, and 0, which
\* was never drawn
ResetPresentable == 0 .. resets

\* the refresh tokens a client can present: those it was given, and forgeries
Presentable == issued \cup {ForgedToken(u) : u \in 1 .. MaxUsers}

\* ------------------------------------------ auth calls run to completion
\* AuthService.register
RegisterCall(e, p, role) ==
    /\ IF RegisterCheck(users, e) = Ok
       THEN /\ Len(users) < MaxUsers
            /\ users' = SetRefreshToken(UserInsert(users, NewUser(e, p, role)),
                                        Len(users) + 1,
                                        GenerateRefreshToken(Len(users) + 1, now))
            /\ issued' = issued \cup {GenerateRefreshToken(Len(users) + 1, now)}
            /\ access' = access \cup {GenerateAuthToken(Len(users) + 1, role, now)}
            /\ resp' = Registered
       ELSE /\ users' = users /\ issued' = issued /\ access' = access
            /\ resp' = RegisterCheck(users, e)
    /\ UNCHANGED <<bidVars, resets, now, areq>>

\* AuthService.login
LoginCall(e, p) ==
    /\ IF LoginCheck(users, e, p) = Ok
       THEN LET u == First(ActiveUsersWithEmail(users, e)) IN
            /\ users' = SetLogin(users, u, GenerateRefreshToken(u, now), now)
            /\ issued' = issued \cup {GenerateRefreshToken(u, now)}
            /\ access' = access \cup {GenerateAuthToken(u, users[u].role, now)}
            /\ resp' = LoggedIn
       ELSE /\ users' = users /\ issued' = issued /\ access' = access
            /\ resp' = LoginCheck(users, e, p)
    /\ UNCHANGED <<bidVars, resets, now, areq>>

\* AuthService.refreshToken
RefreshCall(tok) ==
    /\ IF RefreshCheck(users, tok, now) = Ok
       THEN /\ users' = SetRefreshToken(users, tok[2], GenerateRefreshToken(tok[2], now))
            /\ issued' = issued \cup {GenerateRefreshToken(tok[2], now)}
            /\ access' = access \cup {GenerateAuthToken(tok[2], users[tok[2]].role, now)}
            /\ resp' = Refreshed
       ELSE /\ users' = users /\ issued' = issued /\ access' = access
            /\ resp' = InvalidRefresh
    /\ UNCHANGED <<bidVars, resets, now, areq>>

\* AuthService.logout, for a caller the route's authenticate has admitted
LogoutCall(u) ==
    /\ u \in DOMAIN users
    /\ users' = UnsetRefreshToken(users, u)
    /\ resp' = LoggedOut
    /\ UNCHANGED <<bidVars, access, resets, now, issued, areq>>

\* AuthService.deactivateAccount, for a caller authenticate has admitted
DeactivateCall(u) ==
    /\ u \in DOMAIN users
    /\ users' = Deactivate(users, u)
    /\ resp' = Deactivated
    /\ UNCHANGED <<bidVars, access, resets, now, issued, areq>>

\* authenticate, then AuthService.changePassword
ChangePasswordCall(u, cur, new) ==
    /\ IF ChangePasswordCheck(users, u, cur) = Ok
       THEN users' = SetPassword(users, u, new) /\ resp' = PasswordChanged
       ELSE users' = users /\ resp' = ChangePasswordCheck(users, u, cur)
    /\ UNCHANGED <<bidVars, access, resets, now, issued, areq>>

\* AuthService.forgotPassword
ForgotPasswordCall(e) ==
    /\ IF ForgotCheck(users, e) = Ok
       THEN /\ resets < MaxResets
            /\ resets' = resets + 1
            /\ users' = SetResetFields(users, First(ActiveUsersWithEmail(users, e)),
                                       resets + 1, now)
            /\ resp' = ResetTokenIssued(resets + 1)
       ELSE users' = users /\ resets' = resets /\ resp' = ForgotCheck(users, e)
    /\ UNCHANGED <<bidVars, access, now, issued, areq>>

\* AuthService.resetPassword
ResetPasswordCall(k, p) ==
    /\ IF ResetCheck(users, k, now) = Ok
       THEN /\ users' = SetPasswordClearReset(users, First(ResetUsers(users, k, now)), p)
            /\ resp' = PasswordReset
       ELSE users' = users /\ resp' = InvalidReset
    /\ UNCHANGED <<bidVars, access, resets, now, issued, areq>>

\* authenticate, then AuthController.updateProfile: the body is validated
\* and AuthService.updateProfile writes the validated value
UpdateProfileCall(u, body) ==
    /\ IF Authenticate(users, u) # Ok
       THEN users' = users /\ resp' = NotAuthenticated
       ELSE IF UpdateProfileValidate(body) # Ok
       THEN users' = users /\ resp' = UpdateProfileValidate(body)
       ELSE users' = SetProfile(users, u, body) /\ resp' = ProfileUpdated
    /\ UNCHANGED <<bidVars, access, resets, now, issued, areq>>

\* just under ten minutes pass
Elapse ==
    /\ now <= MaxClock
    /\ now' = now + ResetTTL - 1
    /\ UNCHANGED <<bidVars, access, resets, users, issued, areq, resp>>

\* a second passes
Tick ==
    /\ now < MaxClock
    /\ now' = now + 1
    /\ UNCHANGED <<bidVars, access, resets, users, issued, areq, resp>>

AuthSeqNext ==
    \/ \E e \in EmailInputs, p \in RegisterPasswords, role \in RegisterRoles :
          RegisterCall(e, p, role)
    \/ \E e \in EmailInputs, p \in Passwords : LoginCall(e, p)
    \/ \E tok \in Presentable : RefreshCall(tok)
    \/ \E u \in 1 .. MaxUsers : LogoutCall(u)
    \/ \E u \in 1 .. MaxUsers : DeactivateCall(u)
    \/ Tick

\* auth requests served one after the other
AuthSeqSpec == Init /\ [][AuthSeqNext]_vars

\* ------------------------------- credential calls run to completion
\* the address the accounts of this specification register with
PwdEmails == {"a@x.io"}

PwdSeqNext ==
    \/ \E e \in PwdEmails, p \in RegisterPasswords, role \in RegisterRoles :
          RegisterCall(e, p, role)
    \/ \E e \in EmailInputs, p \in Passwords : LoginCall(e, p)
    \/ \E tok \in Presentable : RefreshCall(tok)
    \/ \E u \in 1 .. MaxUsers : DeactivateCall(u)
    \/ \E u \in 1 .. MaxUsers, cur \in Passwords, new \in Passwords :
          ChangePasswordCall(u, cur, new)
    \/ \E e \in EmailInputs : ForgotPasswordCall(e)
    \/ \E k \in ResetPresentable, p \in Passwords : ResetPasswordCall(k, p)
    \/ \E u \in 1 .. MaxUsers, body \in PlainBodies : UpdateProfileCall(u, body)
    \/ Tick
    \/ Elapse

\* register, login, refresh and the password operations, served one after
\* the other while the clock runs past a reset token's expiry
PwdSeqSpec == Init /\ [][PwdSeqNext]_vars

\* two addresses that differ in more than case
RoleEmails == {"a@x.io", "b@x.io"}

\* ------------------------------- refresh tokens that outlive their expiry
\* a token the server has signed for an account whose document is not in
\* the collection (removed by other means than this service)
OrphanToken == GenerateRefreshToken(MaxUsers + 1, 0)

\* thirty days pass: every refresh token signed before is expired
ElapseRefreshTTL ==
    /\ now <= MaxClock
    /\ now' = now + RefreshTTL
    /\ UNCHANGED <<bidVars, access, resets, users, issued, areq, resp>>

RefreshSeqNext ==
    \/ \E e \in RoleEmails, p \in RegisterPasswords, role \in RegisterRoles :
          RegisterCall(e, p, role)
    \/ \E e \in RoleEmails, p \in Passwords : LoginCall(e, p)
    \/ \E tok \in Presentable \cup {OrphanToken} : RefreshCall(tok)
    \/ \E u \in 1 .. MaxUsers : LogoutCall(u)
    \/ \E u \in 1 .. MaxUsers : DeactivateCall(u)
    \/ Tick
    \/ ElapseRefreshTTL

\* the session calls, served one after the other, while the clock runs past
\* the expiry of the refresh tokens issued first
RefreshSeqSpec == Init /\ [][RefreshSeqNext]_vars

\* ------------------------------------ accounts of both roles, one clock tick
RoleSeqNext ==
    \/ \E e \in RoleEmails, p \in RegisterPasswords, role \in Roles : RegisterCall(e, p, role)
    \/ \E e \in RoleEmails, p \in Passwords : LoginCall(e, p)
    \/ \E tok \in Presentable : RefreshCall(tok)
    \/ \E u \in 1 .. MaxUsers : LogoutCall(u)
    \/ \E u \in 1 .. MaxUsers : DeactivateCall(u)
    \/ \E u \in 1 .. MaxUsers, cur \in Passwords, new \in Passwords :
          ChangePasswordCall(u, cur, new)
    \/ \E e \in RoleEmails : ForgotPasswordCall(e)
    \/ \E k \in ResetPresentable, p \in Passwords : ResetPasswordCall(k, p)
    \/ \E u \in 1 .. MaxUsers, body \in ProfileBodies : UpdateProfileCall(u, body)

\* every request of the auth service, served one after the other, for
\* accounts of either role
RoleSeqSpec == Init /\ [][RoleSeqNext]_vars

\* ------------------------------------ bids placed by registered accounts
Insufficient == Resp(403, "Insufficient permissions")

\* an authorize that lets every role through
AuthorizeAnyRole(roles, tok) == Ok

\* the authorize(...roles) middleware: req.user.role, which authenticate took
\* from the access token, is one of the roles the route names
Authorize(roles, tok) == IF tok[3] \in roles THEN Ok ELSE Insufficient

\* the roles the route of createBid admits ("only freelancers bid")
BidderRoles == {"freelancer"}

\* POST on the gig collection by the bearer of tok: authenticate, then
\* GigsService.createGig; any authenticated user may own a gig here
CreateGigRoute(tok) ==
    IF Authenticate(users, tok[2]) # Ok
    THEN resp' = NotAuthenticated /\ UNCHANGED <<bidVars, authVars>>
    ELSE CreateGigCall(tok[2])

\* POST on the bid collection by the bearer of tok: authenticate, authorize
\* for freelancers, then BidsController.createBid with req.user.userId
CreateBidRoute(tok, g, a) ==
    IF Authenticate(users, tok[2]) # Ok
    THEN resp' = NotAuthenticated /\ UNCHANGED <<bidVars, authVars>>
    ELSE IF Authorize(BidderRoles, tok) # Ok
    THEN resp' = Authorize(BidderRoles, tok) /\ UNCHANGED <<bidVars, authVars>>
    ELSE CreateBidCall(g, tok[2], a)

BidRoleNext ==
    \/ \E e \in RoleEmails, p \in RegisterPasswords, role \in Roles : RegisterCall(e, p, role)
    \/ \E e \in RoleEmails, p \in RegisterPasswords : LoginCall(e, p)
    \/ \E u \in 1 .. MaxUsers, body \in ProfileBodies : UpdateProfileCall(u, body)
    \/ \E u \in 1 .. MaxUsers : DeactivateCall(u)
    \/ \E tok \in access : CreateGigRoute(tok)
    \/ \E tok \in access, g \in GigIds : CreateBidRoute(tok, g, MinAmount)

\* accounts of either role register, log in, edit their profile and are
\* deactivated, and create gigs and bids with the access tokens they hold
BidRoleSpec == Init /\ [][BidRoleNext]_vars

\* ------------------------------------ bearer tokens at the auth middleware
\* config.jwt.expiresIn = '7d', in seconds
AccessTTL == 7 * 24 * 60 * 60

\* a server whose two secrets are the same string: either kind of token
\* verifies (tok[Len(tok)] is the second the token was signed in)
VerifyAccessSharedSecret(tok, t) ==
    tok[1] \in {"access", "refresh"} /\ t < tok[Len(tok)] + AccessTTL

\* jwt.verify(token, config.jwt.secret) at clock t: signature and expiry.
\* The first component of a token stands for the secret that signed it.
VerifyAccess(tok, t) == tok[1] = "access" /\ t < tok[4] + AccessTTL

\* a request without an Authorization header, or one that is not "Bearer ..."
NoBearer == <<>>

\* an access token the server has signed for an account whose document is
\* not in the collection
OrphanAccess == GenerateAuthToken(MaxUsers + 1, "freelancer", 0)

\* what a client can send as its bearer token: nothing, the access tokens and
\* the refresh tokens it was given, forgeries, and the orphan token
Bearers ==
    {NoBearer, OrphanAccess} \cup access \cup issued
        \cup {ForgedToken(u) : u \in 1 .. MaxUsers}

TokenRequired == Resp(401, "Access token is required")
InvalidToken  == Resp(401, "Invalid or expired token")

\* next() without an error and with req.user = { userId, role } of the token
Admitted(tok) ==
    [code |-> 200, msg |-> "next", why |-> "", data |-> {<<tok[2], tok[3]>>}]

\* next() without an error and without req.user
Anonymous == [code |-> 200, msg |-> "next", why |-> "", data |-> {}]

\* an authenticate that trusts a verified token without reading the user
AuthenticateBearerTokenOnly(us, tok, t) ==
    IF tok = NoBearer THEN TokenRequired
    ELSE IF ~VerifyAccess(tok, t) THEN InvalidToken
    ELSE Admitted(tok)

\* the authenticate middleware on a bearer token: header, jwt.verify, then
\* the user lookup; every failure is handed to next() as a 401
AuthenticateBearer(us, tok, t) ==
    IF tok = NoBearer THEN TokenRequired
    ELSE IF ~VerifyAccess(tok, t) THEN InvalidToken
    ELSE IF Authenticate(us, tok[2]) # Ok THEN Authenticate(us, tok[2])
    ELSE Admitted(tok)

\* an optional authentication that hands its token errors to next()
OptionalAuthStrict(us, tok, t) ==
    IF tok = NoBearer THEN Anonymous ELSE AuthenticateBearer(us, tok, t)

\* the optionalAuth middleware: the inner try/catch swallows what jwt.verify
\* and the lookup throw, and next() is called without an error either way
OptionalAuth(us, tok, t) ==
    IF tok = NoBearer THEN Anonymous
    ELSE IF ~VerifyAccess(tok, t) THEN Anonymous
    ELSE IF Authenticate(us, tok[2]) = Ok THEN Admitted(tok)
    ELSE Anonymous

\* a verification that looks the token's user up as authenticate does
VerifyTokenChecksUser(us, tok, t) == AuthenticateBearer(us, tok, t)

\* AuthService.verifyToken: jwt.verify alone, the decoded claims returned;
\* the user collection is not read
VerifyToken(us, tok, t) ==
    IF tok # NoBearer /\ VerifyAccess(tok, t) THEN Admitted(tok) ELSE InvalidToken

AuthenticateRequest(tok) ==
    /\ resp' = AuthenticateBearer(users, tok, now)
    /\ UNCHANGED <<bidVars, authVars>>

OptionalAuthRequest(tok) ==
    /\ resp' = OptionalAuth(users, tok, now)
    /\ UNCHANGED <<bidVars, authVars>>

VerifyTokenCall(tok) ==
    /\ resp' = VerifyToken(users, tok, now)
    /\ UNCHANGED <<bidVars, authVars>>

\* seven days pass: every access token signed before is expired
ElapseAccessTTL ==
    /\ now <= MaxClock
    /\ now' = now + AccessTTL
    /\ UNCHANGED <<bidVars, access, resets, users, issued, areq, resp>>

SessionNext ==
    \/ \E e \in RoleEmails, p \in RegisterPasswords, role \in Roles : RegisterCall(e, p, role)
    \/ \E e \in RoleEmails, p \in RegisterPasswords : LoginCall(e, p)
    \/ \E tok \in Presentable \cup access : RefreshCall(tok)
    \/ \E u \in 1 .. MaxUsers : LogoutCall(u)
    \/ \E u \in 1 .. MaxUsers : DeactivateCall(u)
    \/ \E tok \in Bearers : AuthenticateRequest(tok)
    \/ \E tok \in Bearers : OptionalAuthRequest(tok)
    \/ \E tok \in Bearers : VerifyTokenCall(tok)
    \/ Tick
    \/ ElapseAccessTTL

\* the session calls and the token checks, served one after the other,
\* while the clock runs past the expiry of the access tokens issued first
SessionSpec == Init /\ [][SessionNext]_vars

\* --------------------------------------------- logins with rememberMe
\* loginSchema: rememberMe is Joi.boolean().optional()
RememberMeInputs == {"true", "false", "absent"}

\* the controller's cookieMaxAge, rememberMe ? 30 days : 1 day, in seconds
CookieMaxAge(rm) == IF rm = "true" THEN 30 * 24 * 60 * 60 ELSE 24 * 60 * 60

\* a login that signs a shorter-lived refresh token without rememberMe
LoginRefreshTokenByRememberMe(u, t, rm) ==
    IF rm = "true" THEN GenerateRefreshToken(u, t)
    ELSE GenerateRefreshToken(u, t - (RefreshTTL - CookieMaxAge(rm)))

\* AuthService.login: user.generateRefreshToken() takes no argument, the
\* rememberMe parameter is not read
LoginRefreshToken(u, t, rm) == GenerateRefreshToken(u, t)

\* AuthController.login on (us, t): the users after it, the tokens it
\* returns, its response and the maxAge of the cookie it sets
LoginOutcome(us, e, p, rm, t) ==
    IF LoginCheck(us, e, p) = Ok
    THEN LET u == First(ActiveUsersWithEmail(us, e)) IN
         [users   |-> SetLogin(us, u, LoginRefreshToken(u, t, rm), t),
          refresh |-> {LoginRefreshToken(u, t, rm)},
          access  |-> {GenerateAuthToken(u, us[u].role, t)},
          resp    |-> LoggedIn,
          cookie  |-> {CookieMaxAge(rm)}]
    ELSE [users |-> us, refresh |-> {}, access |-> {},
          resp |-> LoginCheck(us, e, p), cookie |-> {}]

\* AuthController.login; the response carries the cookie's maxAge
LoginRequest(e, p, rm) ==
    /\ users' = LoginOutcome(users, e, p, rm, now).users
    /\ issued' = issued \cup LoginOutcome(users, e, p, rm, now).refresh
    /\ access' = access \cup LoginOutcome(users, e, p, rm, now).access
    /\ resp' = [LoginOutcome(users, e, p, rm, now).resp
                   EXCEPT !.data = LoginOutcome(users, e, p, rm, now).cookie]
    /\ UNCHANGED <<bidVars, resets, now, areq>>

LoginSeqNext ==
    \/ \E e \in RoleEmails, p \in RegisterPasswords, role \in RegisterRoles :
          RegisterCall(e, p, role)
    \/ \E e \in RoleEmails, p \in Passwords, rm \in RememberMeInputs :
          LoginRequest(e, p, rm)
    \/ \E tok \in Presentable : RefreshCall(tok)
    \/ \E u \in 1 .. MaxUsers : LogoutCall(u)
    \/ \E u \in 1 .. MaxUsers : DeactivateCall(u)
    \/ Tick

\* the session calls served one after the other, logins arriving with
\* every value of rememberMe
LoginSeqSpec == Init /\ [][LoginSeqNext]_vars

\* ------------------------------------------ bid reads between bid calls
BidReadNext ==
    \/ \E u \in UserIds : CreateGigCall(u)
    \/ \E g \in GigIds, u \in UserIds : DeleteGigCall(g, u)
    \/ \E g \in GigIds, f \in UserIds : CreateBidCall(g, f, MinAmount)
    \/ \E b \in BidIds, s \in SettableStatuses, c \in UserIds : UpdateBidStatusCall(b, s, c)
    \/ \E b \in BidIds, f \in UserIds : WithdrawBidCall(b, f)
    \/ \E b \in BidIds, u \in UserIds : GetBidByIdCall(b, u)
    \/ \E st \in StatusFilters, g \in GigFilters, n \in Limits, u \in UserIds, role \in Roles :
          GetBidsCall(st, g, n, u, role)
    \/ \E g \in GigIds, c \in UserIds, n \in Limits : GetGigBidsCall(g, c, n)

\* the bid reads, served between calls that create, decide, withdraw and
\* delete
BidReadSpec == Init /\ [][BidReadNext]_vars

\* -------------------------------- auth requests interleaved at each await
AuthIdle(r)     == areq[r].op = "idle"
AuthFreeSlot(r) == AuthIdle(r) /\ \A q \in ReqIds : q < r => ~AuthIdle(q)
AuthRelease(r)  == areq' = [areq EXCEPT ![r] = IdleAuth]
AuthAt(r, op, pc) == areq[r].op = op /\ areq[r].pc = pc

\* register requests that have not inserted their user yet
PendingInserts == Cardinality({q \in ReqIds : AuthAt(q, "register", "insert")})

\* register up to `await User.findOne({ email })`
RegisterStart(r, e, p, role) ==
    /\ AuthFreeSlot(r)
    /\ Len(users) + PendingInserts < MaxUsers
    /\ IF RegisterCheck(users, e) = Ok
       THEN /\ areq' = [areq EXCEPT ![r] =
                 [IdleAuth EXCEPT !.op = "register", !.pc = "insert",
                                  !.email = e, !.password = p, !.role = role]]
            /\ resp' = resp
       ELSE areq' = areq /\ resp' = RegisterCheck(users, e)
    /\ UNCHANGED <<bidVars, access, resets, users, now, issued>>

\* register up to the first `await user.save()`; the tokens are signed as
\* soon as it resolves
RegisterInsert(r) ==
    /\ AuthAt(r, "register", "insert")
    /\ users' = UserInsert(users, NewUser(areq[r].email, areq[r].password, areq[r].role))
    /\ IF EmailIndexAdmits(users, NewUser(areq[r].email, areq[r].password, areq[r].role))
       THEN /\ areq' = [areq EXCEPT ![r].pc = "saveToken",
                                    ![r].uid = Len(users) + 1,
                                    ![r].token = GenerateRefreshToken(Len(users) + 1, now)]
            /\ resp' = resp
       ELSE AuthRelease(r) /\ resp' = DuplicateKey
    /\ UNCHANGED <<bidVars, access, resets, now, issued>>

\* register up to the second `await user.save()`, which stores the token
RegisterSaveToken(r) ==
    /\ AuthAt(r, "register", "saveToken")
    /\ users' = SetRefreshToken(users, areq[r].uid, areq[r].token)
    /\ issued' = issued \cup {areq[r].token}
    /\ access' = access \cup {GenerateAuthToken(areq[r].uid, areq[r].role, areq[r].token[3])}
    /\ resp' = Registered
    /\ AuthRelease(r)
    /\ UNCHANGED <<bidVars, resets, now>>

\* login up to `await User.findOne` and the password check; the tokens are
\* signed and lastLogin is taken as soon as they resolve
LoginStart(r, e, p) ==
    /\ AuthFreeSlot(r)
    /\ IF LoginCheck(users, e, p) = Ok
       THEN LET u == First(ActiveUsersWithEmail(users, e)) IN
            /\ areq' = [areq EXCEPT ![r] =
                 [IdleAuth EXCEPT !.op = "login", !.pc = "save", !.uid = u,
                                  !.role = users[u].role,
                                  !.token = GenerateRefreshToken(u, now), !.at = now]]
            /\ resp' = resp
       ELSE areq' = areq /\ resp' = LoginCheck(users, e, p)
    /\ UNCHANGED <<bidVars, access, resets, users, now, issued>>

\* login: `await user.save()`
LoginSave(r) ==
    /\ AuthAt(r, "login", "save")
    /\ users' = SetLogin(users, areq[r].uid, areq[r].token, areq[r].at)
    /\ issued' = issued \cup {areq[r].token}
    /\ access' = access \cup {GenerateAuthToken(areq[r].uid, areq[r].role, areq[r].token[3])}
    /\ resp' = LoggedIn
    /\ AuthRelease(r)
    /\ UNCHANGED <<bidVars, resets, now>>

\* refreshToken up to `await User.findOne`; the new tokens are signed as soon
\* as it resolves
RefreshStart(r, tok) ==
    /\ AuthFreeSlot(r)
    /\ IF RefreshCheck(users, tok, now) = Ok
       THEN /\ areq' = [areq EXCEPT ![r] =
                 [IdleAuth EXCEPT !.op = "refresh", !.pc = "save", !.uid = tok[2],
                                  !.role = users[tok[2]].role,
                                  !.token = GenerateRefreshToken(tok[2], now),
                                  !.presented = tok]]
            /\ resp' = resp
       ELSE areq' = areq /\ resp' = InvalidRefresh
    /\ UNCHANGED <<bidVars, access, resets, users, now, issued>>

\* refreshToken: `await user.save()`
RefreshSave(r) ==
    /\ AuthAt(r, "refresh", "save")
    /\ users' = SetRefreshToken(users, areq[r].uid, areq[r].token)
    /\ issued' = issued \cup {areq[r].token}
    /\ access' = access \cup {GenerateAuthToken(areq[r].uid, areq[r].role, areq[r].token[3])}
    /\ resp' = Refreshed
    /\ AuthRelease(r)
    /\ UNCHANGED <<bidVars, resets, now>>

AuthConcNext ==
    \/ \E r \in ReqIds, e \in EmailInputs, p \in RegisterPasswords, role \in RegisterRoles :
          RegisterStart(r, e, p, role)
    \/ \E r \in ReqIds : RegisterInsert(r)
    \/ \E r \in ReqIds : RegisterSaveToken(r)
    \/ \E r \in ReqIds, e \in EmailInputs, p \in Passwords : LoginStart(r, e, p)
    \/ \E r \in ReqIds : LoginSave(r)
    \/ \E r \in ReqIds, tok \in Presentable : RefreshStart(r, tok)
    \/ \E r \in ReqIds : RefreshSave(r)
    \/ \E u \in 1 .. MaxUsers : LogoutCall(u)
    \/ \E u \in 1 .. MaxUsers : DeactivateCall(u)
    \/ Tick

\* auth requests interleaved at store-access granularity; logout and
\* deactivateAccount are one store access each
AuthConcSpec == Init /\ [][AuthConcNext]_vars

\* -------------------------- password requests interleaved at each await
\* resetPassword up to `await User.findOne({ passwordResetToken, ... })`;
\* the request keeps the token it presented in `at`
ResetStart(r, k, p) ==
    /\ AuthFreeSlot(r)
    /\ IF ResetCheck(users, k, now) = Ok
       THEN /\ areq' = [areq EXCEPT ![r] =
                 [IdleAuth EXCEPT !.op = "reset", !.pc = "save",
                                  !.uid = First(ResetUsers(users, k, now)),
                                  !.password = p, !.at = k]]
            /\ resp' = resp
       ELSE areq' = areq /\ resp' = InvalidReset
    /\ UNCHANGED <<bidVars, access, resets, users, now, issued>>

\* resetPassword: `await user.save()`
ResetSave(r) ==
    /\ AuthAt(r, "reset", "save")
    /\ users' = SetPasswordClearReset(users, areq[r].uid, areq[r].password)
    /\ resp' = PasswordReset
    /\ AuthRelease(r)
    /\ UNCHANGED <<bidVars, access, resets, now, issued>>

\* forgotPassword up to `await User.findOne({ email, isActive: true })`; the
\* token is drawn and its expiry computed as soon as the lookup resolves
ForgotStart(r, e) ==
    /\ AuthFreeSlot(r)
    /\ IF ForgotCheck(users, e) = Ok
       THEN /\ resets < MaxResets
            /\ resets' = resets + 1
            /\ areq' = [areq EXCEPT ![r] =
                 [IdleAuth EXCEPT !.op = "forgot", !.pc = "save",
                                  !.uid = First(ActiveUsersWithEmail(users, e)),
                                  !.at = now, !.token = Sha256(resets + 1)]]
            /\ resp' = resp
       ELSE areq' = areq /\ resets' = resets /\ resp' = NoSuchEmail
    /\ UNCHANGED <<bidVars, access, users, now, issued>>

\* forgotPassword: `await user.save()`
ForgotSave(r) ==
    /\ AuthAt(r, "forgot", "save")
    /\ users' = SetResetFields(users, areq[r].uid, areq[r].token[2], areq[r].at)
    /\ resp' = ResetTokenIssued(areq[r].token[2])
    /\ AuthRelease(r)
    /\ UNCHANGED <<bidVars, access, resets, now, issued>>

\* authenticate, then changePassword up to comparePassword
ChangePasswordStart(r, u, cur, new) ==
    /\ AuthFreeSlot(r)
    /\ IF ChangePasswordCheck(users, u, cur) = Ok
       THEN /\ areq' = [areq EXCEPT ![r] =
                 [IdleAuth EXCEPT !.op = "change", !.pc = "save",
                                  !.uid = u, !.password = new]]
            /\ resp' = resp
       ELSE areq' = areq /\ resp' = ChangePasswordCheck(users, u, cur)
    /\ UNCHANGED <<bidVars, access, resets, users, now, issued>>

\* changePassword: `await user.save()`
ChangePasswordSave(r) ==
    /\ AuthAt(r, "change", "save")
    /\ users' = SetPassword(users, areq[r].uid, areq[r].password)
    /\ resp' = PasswordChanged
    /\ AuthRelease(r)
    /\ UNCHANGED <<bidVars, access, resets, now, issued>>

PwdConcNext ==
    \/ \E e \in PwdEmails, p \in RegisterPasswords, role \in RegisterRoles :
          RegisterCall(e, p, role)
    \/ \E e \in EmailInputs, p \in Passwords : LoginCall(e, p)
    \/ \E tok \in Presentable : RefreshCall(tok)
    \/ \E u \in 1 .. MaxUsers : LogoutCall(u)
    \/ \E r \in ReqIds, k \in ResetPresentable, p \in Passwords : ResetStart(r, k, p)
    \/ \E r \in ReqIds : ResetSave(r)
    \/ \E r \in ReqIds, e \in EmailInputs : ForgotStart(r, e)
    \/ \E r \in ReqIds : ForgotSave(r)
    \/ \E r \in ReqIds, u \in 1 .. MaxUsers, cur \in Passwords, new \in Passwords :
          ChangePasswordStart(r, u, cur, new)
    \/ \E r \in ReqIds : ChangePasswordSave(r)
    \/ \E u \in 1 .. MaxUsers, body \in PlainBodies : UpdateProfileCall(u, body)
    \/ \E u \in 1 .. MaxUsers : DeactivateCall(u)

\* password requests interleaved at store-access granularity; register,
\* login and refreshToken are kept whole, logout, updateProfile and
\* deactivateAccount are one store access each
PwdConcSpec == Init /\ [][PwdConcNext]_vars

\* ------------------------------------------------------- the bid claims
AcceptedOn(g) == {i \in DOMAIN bids : bids[i].gigId = g /\ bids[i].status = "accepted"}

\* C1: after any sequence of calls, each run to completion, every gig has at
\* most one accepted bid.
AtMostOneAcceptedPerGig == \A g \in GigIds : Cardinality(AcceptedOn(g)) <= 1

\* the status bid i has after an accept of bid b, as the claim states it
StatusAfterAccept(i, b) ==
    IF i = b THEN "accepted"
    ELSE IF bids[i].gigId = bids[b].gigId /\ bids[i].status = "pending" THEN "rejected"
    ELSE bids[i].status

\* C2: a successful updateBidStatus(b, 'accepted', c) run to completion leaves
\* b accepted, every other bid of b's gig that was pending rejected, and every
\* other bid (not pending, or of another gig) with the status it had.
AcceptRejectsPendingSiblingsOnly ==
    [][\A b \in BidIds, c \in UserIds :
         (PendingBidOfClient(bids, b, c) /\ UpdateBidStatusCall(b, "accepted", c))
         => /\ DOMAIN bids' = DOMAIN bids
            /\ \A i \in DOMAIN bids : bids'[i].status = StatusAfterAccept(i, b)]_vars

\* C2 witness: an accept has run on a gig with another bid, and left that bid
\* rejected or withdrawn.
AcceptedWithSibling ==
    /\ resp = Ok
    /\ \E b \in DOMAIN bids, i \in DOMAIN bids :
          /\ i # b /\ bids[i].gigId = bids[b].gigId
          /\ bids[b].status = "accepted"
          /\ bids[i].status \in {"rejected", "withdrawn"}

\* C3: the store never holds two bids with the same (gigId, freelancerId).
OneBidPerGigAndFreelancer ==
    \A i \in DOMAIN bids, j \in DOMAIN bids :
        (bids[i].gigId = bids[j].gigId /\ bids[i].freelancerId = bids[j].freelancerId)
        => i = j

\* C3 witness: a createBid has passed its existence check and is about to
\* save, and another createBid has saved a bid for the same pair meanwhile.
SaveRacesWithSavedBid ==
    \E r \in ReqIds :
        At(r, "createBid", "save") /\ ExistingBid(bids, breq[r].gig, breq[r].who)

\* C4: under any interleaving, a bid that is accepted, rejected or withdrawn
\* keeps that status for ever.
TerminalStatusNeverChanges ==
    [][\A i \in DOMAIN bids :
         bids[i].status \in TerminalStatuses => bids'[i].status = bids[i].status]_vars

\* C13 as stated: createBid for a (gigId, freelancerId) pair that already
\* has a bid fails with 409 Conflict and changes no bid.
SecondBidIsConflict ==
    [][\A g \in GigIds, f \in UserIds, a \in Amounts :
         (ExistingBid(bids, g, f) /\ CreateBidCall(g, f, a))
         => resp'.code = 409 /\ bids' = bids]_vars

\* C13 as amended: createBid for a pair that already has a bid, whatever the
\* bid's status, changes no bid and fails with 400 "You have already placed
\* a bid on this gig", or with 404 when the gig is gone or inactive.
SecondBidRefused ==
    [][\A g \in GigIds, f \in UserIds, a \in Amounts :
         (ExistingBid(bids, g, f) /\ CreateBidCall(g, f, a))
         => /\ bids' = bids
            /\ resp' = IF GigFound(gigs, g) /\ gigs[g].isActive
                       THEN AlreadyBid ELSE GigNotActive]_vars

\* C13 witness: a second bid was refused while no bid is pending any more.
SecondBidRefusedAfterTerminal ==
    /\ resp = AlreadyBid
    /\ bids # <<>>
    /\ \A i \in DOMAIN bids : bids[i].status \in TerminalStatuses

StatusChangeRefusedChangesNothing ==
    [][\A b \in BidIds, s \in SettableStatuses, c \in UserIds :
         (/\ b \in DOMAIN bids
          /\ (bids[b].status # "pending" \/ bids[b].clientId # c)
          /\ UpdateBidStatusCall(b, s, c))
         => resp' = BidNotPending /\ resp'.code = 404 /\ bids' = bids]_vars

\* C15 witness: a status change was refused while a withdrawn bid and a
\* pending bid share a gig.
StatusChangeRefused ==
    /\ resp = BidNotPending
    /\ \E i, j \in DOMAIN bids :
          /\ bids[i].gigId = bids[j].gigId
          /\ bids[i].status = "withdrawn"
          /\ bids[j].status = "pending"

\* user u is the freelancer or the client of bid i
PartyTo(i, u) == bids[i].freelancerId = u \/ bids[i].clientId = u

\* C18: in every state, whichever read is served: getBidById by a user who
\* is neither the bid's freelancer nor its client fails with 403 and returns
\* nothing; every bid getBidById or getBids returns has the caller as
\* freelancer or client; getGigBids returns bids, all with the caller as
\* client, only when the caller owns the gig, and otherwise fails with 404
\* and returns nothing.
BidsReadOnlyByParties ==
    /\ \A b \in DOMAIN bids, u \in UserIds :
         ~PartyTo(b, u)
         => GetBidById(bids, b, u).code = 403 /\ GetBidById(bids, b, u).data = {}
    /\ \A b \in BidIds, u \in UserIds :
         \A i \in GetBidById(bids, b, u).data : PartyTo(i, u)
    /\ \A st \in StatusFilters, g \in GigFilters, n \in Limits,
          u \in UserIds, role \in Roles :
         \A i \in GetBids(bids, st, g, n, u, role).data : PartyTo(i, u)
    /\ \A g \in GigIds, c \in UserIds, n \in Limits :
         IF GigOwnedBy(gigs, g, c)
         THEN \A i \in GetGigBids(gigs, bids, g, c, n).data : bids[i].clientId = c
         ELSE /\ GetGigBids(gigs, bids, g, c, n).code = 404
              /\ GetGigBids(gigs, bids, g, c, n).data = {}

\* C18 witness: a read of a bid was refused with 403 while two freelancers'
\* bids are stored.
BidReadForbidden == resp = BidForbidden /\ Len(bids) > 1

\* ------------------------------------------------------ the auth claims
\* refreshToken would accept tok on store us at clock t
Accepted(us, tok, t) == RefreshCheck(us, tok, t) = Ok

\* this step is a login of user u that succeeds
LoginSucceedsFor(u) ==
    \E e \in EmailInputs, p \in Passwords :
        /\ LoginCheck(users, e, p) = Ok
        /\ First(ActiveUsersWithEmail(users, e)) = u
        /\ LoginCall(e, p)

\* this step is a refresh for user u that succeeds
RefreshSucceedsFor(u) ==
    \E tok \in Presentable :
        RefreshCheck(users, tok, now) = Ok /\ tok[2] = u /\ RefreshCall(tok)

\* C5: once a login or a refresh for user u has succeeded, refreshToken
\* rejects every refresh token that was issued to u before that call.
RotationRevokesEarlierTokens ==
    [][\A u \in DOMAIN users :
         (LoginSucceedsFor(u) \/ RefreshSucceedsFor(u))
         => \A tok \in issued : tok[2] = u => ~Accepted(users', tok, now')]_vars

\* C6: two refreshToken calls that carry the same token never both get past
\* the lookup (a call past its lookup saves and answers 200).
OneRefreshPerToken ==
    \A r \in ReqIds, q \in ReqIds :
        (/\ r # q
         /\ AuthAt(r, "refresh", "save") /\ AuthAt(q, "refresh", "save"))
        => areq[r].presented # areq[q].presented

\* C7: logout leaves no stored refresh token; while none is stored every
\* refreshToken call for that user fails with 401 and changes nothing; and
\* only a login of that user stores a token again.
LogoutRevokesUntilLogin ==
    [][/\ \A u \in DOMAIN users :
            LogoutCall(u) => users'[u].refreshToken = NoToken
       /\ \A tok \in Presentable :
            (/\ tok[2] \in DOMAIN users
             /\ users[tok[2]].refreshToken = NoToken
             /\ RefreshCall(tok))
            => resp' = InvalidRefresh /\ users' = users
       /\ \A u \in DOMAIN users :
            (users[u].refreshToken = NoToken /\ users'[u].refreshToken # NoToken)
            => LoginSucceedsFor(u)]_vars

\* C7 witness: an active user is logged out while tokens issued to them are
\* still around, and the last request, a refresh, was refused.
RefreshRefusedAfterLogout ==
    /\ resp = InvalidRefresh
    /\ \E u \in DOMAIN users :
          /\ users[u].isActive
          /\ users[u].refreshToken = NoToken
          /\ \E tok \in issued : tok[2] = u

\* C8: deactivateAccount leaves the user inactive with no stored refresh
\* token; an inactive user stays inactive and without token; every login
\* and every refreshToken call for an inactive user fails with 401 and
\* changes nothing.
DeactivationIsFinal ==
    [][/\ \A u \in DOMAIN users :
            DeactivateCall(u)
            => ~users'[u].isActive /\ users'[u].refreshToken = NoToken
       /\ \A u \in DOMAIN users :
            ~users[u].isActive
            => ~users'[u].isActive /\ users'[u].refreshToken = NoToken
       /\ \A e \in EmailInputs, p \in Passwords :
            (LoginCall(e, p) /\ \E u \in UsersWithEmail(users, e) : ~users[u].isActive)
            => resp'.code = 401 /\ users' = users
       /\ \A tok \in Presentable :
            (/\ tok[2] \in DOMAIN users
             /\ ~users[tok[2]].isActive
             /\ RefreshCall(tok))
            => resp'.code = 401 /\ users' = users]_vars

\* C8 witness: a login for a deactivated user was refused.
LoginRefusedForInactiveUser ==
    /\ resp.why = "inactive user"
    /\ \E u \in DOMAIN users : ~users[u].isActive /\ users[u].refreshToken = NoToken

\* the three ways a login fails, in the claim's terms
UnknownEmail(e)     == \A u \in DOMAIN users : users[u].email # Lower(e)
InactiveEmail(e)    == \E u \in DOMAIN users : users[u].email = Lower(e) /\ ~users[u].isActive
WrongPassword(e, p) ==
    \E u \in DOMAIN users :
        /\ users[u].email = Lower(e) /\ users[u].isActive
        /\ users[u].password # Hash(p)

\* C9: a login with an unknown email, with the email of an inactive user or
\* with a wrong password fails with 401 and one and the same message, and
\* changes no user's stored refresh token or lastLogin.
LoginFailuresAlike ==
    [][\A e \in EmailInputs, p \in Passwords :
         (LoginCall(e, p) /\ (UnknownEmail(e) \/ InactiveEmail(e) \/ WrongPassword(e, p)))
         => /\ resp'.code = 401
            /\ resp'.msg = "Invalid email or password"
            /\ \A u \in DOMAIN users :
                 /\ users'[u].refreshToken = users[u].refreshToken
                 /\ users'[u].lastLogin = users[u].lastLogin]_vars

\* C9 witness: a login was refused for a wrong password while its user had
\* a stored refresh token and a lastLogin from an earlier login.
LoginRefusedForWrongPassword ==
    /\ resp.why = "wrong password"
    /\ \E u \in DOMAIN users :
          /\ users[u].isActive
          /\ users[u].refreshToken # NoToken
          /\ users[u].lastLogin # NoTime

UniqueEmails ==
    \A i \in DOMAIN users, j \in DOMAIN users :
        users[i].email = users[j].email => i = j

OneResetPerToken ==
    \A r \in ReqIds, q \in ReqIds :
        (/\ r # q
         /\ AuthAt(r, "reset", "save") /\ AuthAt(q, "reset", "save"))
        => areq[r].at # areq[q].at

\* the users whose stored reset token is the hash of k
HoldersOf(k) == {u \in DOMAIN users : users[u].passwordResetToken = Sha256(k)}

\* C12: forgotPassword at clock T stores the token's hash with expiry
\* T + 10 minutes; resetPassword with that token sets the password while
\* the clock is strictly before the expiry, and at or after it fails with
\* 400 and leaves every user as it was.
ResetTokenExpires ==
    [][/\ \A e \in EmailInputs :
            (ForgotPasswordCall(e) /\ ForgotCheck(users, e) = Ok)
            => \E u \in DOMAIN users :
                  /\ users'[u].passwordResetToken = Sha256(resets + 1)
                  /\ users'[u].passwordResetExpires = now + ResetTTL
       /\ \A k \in ResetPresentable, p \in Passwords : \A u \in HoldersOf(k) :
            ResetPasswordCall(k, p)
            => IF now < users[u].passwordResetExpires /\ users[u].isActive
               THEN resp' = PasswordReset /\ users'[u].password = Hash(p)
               ELSE resp' = InvalidReset /\ users' = users]_vars

\* C12 witness: a reset was refused at the very second the stored token
\* expires, the user being active.
ResetRefusedAtExpiry ==
    /\ resp = InvalidReset
    /\ \E u \in DOMAIN users :
          /\ users[u].isActive
          /\ users[u].passwordResetToken # NoToken
          /\ users[u].passwordResetExpires = now

\* the stored password of every user is the bcrypt hash, taken once, of a
\* plaintext
HashedOnce == \A u \in DOMAIN users : \E p \in Passwords : users[u].password = Hash(p)

\* this step sets the password of user u to the plaintext p
SetsPasswordOf(u, p) ==
    \/ \E cur \in Passwords :
          ChangePasswordCheck(users, u, cur) = Ok /\ ChangePasswordCall(u, cur, p)
    \/ \E k \in ResetPresentable :
          u \in ResetUsers(users, k, now) /\ ResetPasswordCall(k, p)

\* C16: a stored password is never a plaintext and never hashed twice; it
\* is the hash of the password register, changePassword or resetPassword
\* set last: those calls store the hash of their password, every other step
\* leaves the stored password as it is; and login with the plaintext whose
\* hash is stored succeeds for an active user.
PasswordIsHashOfLastSet ==
    /\ []HashedOnce
    /\ [][/\ \A e \in PwdEmails, p \in RegisterPasswords, role \in RegisterRoles :
               (RegisterCheck(users, e) = Ok /\ RegisterCall(e, p, role))
               => users'[Len(users) + 1].password = Hash(p)
          /\ \A u \in DOMAIN users, p \in Passwords :
               SetsPasswordOf(u, p) => users'[u].password = Hash(p)
          /\ \A u \in DOMAIN users :
               users'[u].password # users[u].password
               => \E p \in Passwords : SetsPasswordOf(u, p)
          /\ \A e \in EmailInputs, p \in Passwords :
               (/\ \E u \in ActiveUsersWithEmail(users, e) : users[u].password = Hash(p)
                /\ LoginCall(e, p))
               => resp' = LoggedIn]_vars

\* C16 witness: a login has succeeded with a password that was set after
\* registration, the user holding a reset token from forgotPassword.
LoggedInWithLaterPassword ==
    /\ resp = LoggedIn
    /\ \E u \in DOMAIN users :
          /\ users[u].password = Hash("Pw2")
          /\ users[u].lastLogin = now
          /\ users[u].passwordResetToken # NoToken

\* C17: changePassword by an authenticated user fails with 400 and leaves
\* every user unchanged when `current` does not match the stored password;
\* when it matches, the stored password becomes the hash of `new`, so that
\* login with `new` passes the password check and login with any other
\* password, the old one when it differs from `new`, does not.
ChangePasswordChecksCurrent ==
    [][\A u \in DOMAIN users, cur \in Passwords, new \in Passwords :
         (users[u].isActive /\ ChangePasswordCall(u, cur, new))
         => IF users[u].password # Hash(cur)
            THEN resp' = WrongCurrent /\ resp'.code = 400 /\ users' = users
            ELSE /\ resp' = PasswordChanged
                 /\ users'[u].password = Hash(new)
                 /\ LoginCheck(users', users[u].email, new) = Ok
                 /\ \A old \in Passwords \ {new} :
                      LoginCheck(users', users[u].email, old) # Ok]_vars

\* C17 witness: changePassword has replaced the password the user
\* registered with.
PasswordReplaced ==
    /\ resp = PasswordChanged
    /\ \E u \in DOMAIN users : users[u].isActive /\ users[u].password = Hash("Pw2")

\* each user's reset token and its expiry are both set or both absent
ResetPairs ==
    \A u \in DOMAIN users :
        (users[u].passwordResetToken = NoToken) <=> (users[u].passwordResetExpires = NoTime)

\* C19: each user's passwordResetToken and passwordResetExpires are both
\* set or both absent in every state, requests interleaved; the save of
\* forgotPassword sets both, the save of resetPassword clears both, and no
\* other step changes either.
ResetFieldsPaired ==
    /\ []ResetPairs
    /\ [][/\ \A r \in ReqIds :
               ForgotSave(r)
               => /\ users'[areq[r].uid].passwordResetToken # NoToken
                  /\ users'[areq[r].uid].passwordResetExpires # NoTime
          /\ \A r \in ReqIds :
               ResetSave(r)
               => /\ users'[areq[r].uid].passwordResetToken = NoToken
                  /\ users'[areq[r].uid].passwordResetExpires = NoTime
          /\ \A u \in DOMAIN users :
               (\/ users'[u].passwordResetToken # users[u].passwordResetToken
                \/ users'[u].passwordResetExpires # users[u].passwordResetExpires)
               => \E r \in ReqIds :
                     areq[r].uid = u /\ (ForgotSave(r) \/ ResetSave(r))]_vars

\* C19 witness: a reset has cleared the pair that a forgotPassword had set,
\* while a second forgotPassword is about to set it again.
ResetPairCleared ==
    /\ resp = PasswordReset
    /\ \E u \in DOMAIN users :
          /\ users[u].passwordResetToken = NoToken
          /\ users[u].passwordResetExpires = NoTime
          /\ \E r \in ReqIds : AuthAt(r, "forgot", "save") /\ areq[r].uid = u

\* C20: withdrawBid(b, f) on a stored bid sets it to 'withdrawn' and changes
\* nothing else when f is the bid's freelancer and the bid is pending;
\* otherwise it fails with 404 and changes no bid.
WithdrawOnlyOwnPending ==
    [][\A b \in BidIds, f \in UserIds :
         (b \in DOMAIN bids /\ WithdrawBidCall(b, f))
         => IF bids[b].freelancerId = f /\ bids[b].status = "pending"
            THEN resp' = Ok /\ bids' = [bids EXCEPT ![b].status = "withdrawn"]
            ELSE resp' = BidNotWithdrawable /\ resp'.code = 404 /\ bids' = bids]_vars

\* C20 witness: a withdrawal was refused while one bid is withdrawn and
\* another bid on the same gig is still pending.
WithdrawRefused ==
    /\ resp = BidNotWithdrawable
    /\ \E i, j \in DOMAIN bids :
          /\ bids[i].gigId = bids[j].gigId
          /\ bids[i].status = "withdrawn"
          /\ bids[j].status = "pending"

\* C21: requests interleaved, a bid's content (amount stands for amount,
\* deliveryTime and proposal) changes only while the bid is pending and only
\* by a write of its own freelancer's updateBid; an updateBid refused with
\* 404 changes no bid.
ContentChangesOnlyWhilePending ==
    [][/\ \A i \in DOMAIN bids :
            bids'[i].amount # bids[i].amount
            => /\ bids[i].status = "pending"
               /\ \E r \in ReqIds :
                     /\ UpdateBidWrite(r)
                     /\ breq[r].bid = i /\ breq[r].who = bids[i].freelancerId
       /\ \A r \in ReqIds, b \in BidIds, f \in UserIds, a \in Amounts :
            (UpdateBidStart(r, b, f, a) /\ ~PendingBidOfFreelancer(bids, b, f))
            => resp' = BidNotPending /\ bids' = bids]_vars

\* C22: no request changes the role a user was registered with: across
\* every step the role of every stored user is the same before and after,
\* and a user registered with role r is stored with role r.
RoleFixedAtRegistration ==
    [][/\ \A u \in DOMAIN users : users'[u].role = users[u].role
       /\ \A e \in RoleEmails, p \in RegisterPasswords, role \in Roles :
            (RegisterCheck(users, e) = Ok /\ RegisterCall(e, p, role))
            => users'[Len(users) + 1].role = role]_vars

\* C22 witness: an updateProfile that carried a role was refused for an
\* active user, while another updateProfile has changed the same user's bio.
RoleUpdateRefused ==
    /\ resp = RoleNotAllowed
    /\ \E u \in DOMAIN users :
          users[u].isActive /\ users[u].bio # "" /\ users[u].role = "client"

BidsReferToStoredGigs == \A i \in DOMAIN bids : GigFound(gigs, bids[i].gigId)

\* C25: request r, an acceptance, is about to make its final write, no
\* other acceptance is in flight, and another acceptance raced with it: r's
\* bid, pending at r's lookup, has since been rejected by the cascade of an
\* acceptance of bid j of the same gig, and j's final write has landed.  Then
\* r's final write, the last of the race, leaves r's bid accepted and j
\* rejected: one accepted bid on the gig.
LastAcceptWins ==
    [][\A r \in ReqIds, j \in DOMAIN bids :
         (/\ At(r, "updateBidStatus", "write") /\ breq[r].arg = "accepted"
          /\ \A q \in ReqIds \ {r} : breq[q].op # "updateBidStatus"
          /\ j # breq[r].bid /\ bids[j].gigId = breq[r].gig
          /\ bids[breq[r].bid].status = "rejected"
          /\ bids[j].status = "accepted"
          /\ UpdateBidStatusWrite(r))
         => /\ bids'[breq[r].bid].status = "accepted"
            /\ bids'[j].status = "rejected"
            /\ \A i \in DOMAIN bids :
                 (bids[i].gigId = breq[r].gig /\ bids'[i].status = "accepted")
                 => i = breq[r].bid]_vars

\* C26: requests interleaved, no state is reached in which the cascade of
\* an acceptance of bid B has rejected siblings of B and B is not accepted:
\* the step that rejects the siblings leaves B accepted.
AcceptCascadeIsAtomic ==
    [][\A r \in ReqIds :
         (UpdateBidStatusCascade(r) /\ bids' # bids)
         => bids'[breq[r].bid].status = "accepted"]_vars

\* C27: updateBidStatus(b, 'rejected', c) on a pending bid of client c
\* answers 200, sets b to 'rejected' and leaves every other bid, of the
\* same gig or of another, as it was.
RejectChangesOneBid ==
    [][\A b \in BidIds, c \in UserIds :
         (PendingBidOfClient(bids, b, c) /\ UpdateBidStatusCall(b, "rejected", c))
         => resp' = Ok /\ bids' = [bids EXCEPT ![b].status = "rejected"]]_vars

\* C27 witness: a bid was rejected and another bid of the same gig is still
\* pending.
RejectedBesidePending ==
    /\ resp = Ok
    /\ \E i, j \in DOMAIN bids :
          /\ bids[i].gigId = bids[j].gigId
          /\ bids[i].status = "rejected"
          /\ bids[j].status = "pending"

\* C28: createBid stores the bid with the gigId and freelancerId of the call
\* and with the gig's owner at that moment as clientId; no step changes the
\* gigId, freelancerId or clientId of a stored bid, and no bid is removed.
BidPartiesAreFixed ==
    [][/\ \A i \in DOMAIN bids :
            /\ i \in DOMAIN bids'
            /\ bids'[i].gigId = bids[i].gigId
            /\ bids'[i].freelancerId = bids[i].freelancerId
            /\ bids'[i].clientId = bids[i].clientId
       /\ \A g \in GigIds, f \in UserIds :
            (/\ resp' = Created
             /\ CreateBidResp(gigs, bids, g, f) = Created
             /\ CreateBidCall(g, f, MinAmount))
            => /\ Len(bids') = Len(bids) + 1
               /\ bids'[Len(bids')].gigId = g
               /\ bids'[Len(bids')].freelancerId = f
               /\ bids'[Len(bids')].clientId = gigs[g].freelancerId]_vars

\* C28 witness: an update that carried a clientId was refused while the bid's
\* gig has been deleted and another update has changed an amount.
ClientUpdateRefused ==
    /\ resp = ClientNotAllowed
    /\ \E i \in DOMAIN bids :
          bids[i].amount # MinAmount /\ ~GigFound(gigs, bids[i].gigId)

\* C29: refreshToken fails with 401 "Invalid refresh token" and leaves
\* every user as it was (the stored refresh token included) when the
\* presented token is not signed with the refresh secret, is expired, names
\* a user that is not stored or not active, or is not the token stored for
\* its user.
RefreshRefusedChangesNothing ==
    [][\A tok \in Presentable \cup {OrphanToken} :
         (/\ \/ tok[1] # "refresh"
             \/ now >= tok[3] + RefreshTTL
             \/ tok[2] \notin DOMAIN users
             \/ ~users[tok[2]].isActive
             \/ users[tok[2]].refreshToken # tok
          /\ RefreshCall(tok))
         => resp' = InvalidRefresh /\ resp'.code = 401 /\ users' = users]_vars

\* C29 witness: a refresh was refused while every token an active user was
\* given, the stored one included, has expired.
RefreshRefusedAfterExpiry ==
    /\ resp = InvalidRefresh
    /\ \E u \in DOMAIN users :
          /\ users[u].isActive
          /\ users[u].refreshToken # NoToken
          /\ now >= users[u].refreshToken[3] + RefreshTTL

\* C30: forgotPassword for an email of no active user (no user, or an
\* inactive one) fails with 404 and changes no user; for an active user it
\* answers 200 with a token whose sha256 hash is that user's stored
\* passwordResetToken, stored with expiry now + 10 minutes.
ForgotPasswordIssuesToken ==
    [][\A e \in EmailInputs :
         ForgotPasswordCall(e)
         => IF \E u \in DOMAIN users : users[u].email = Lower(e) /\ users[u].isActive
            THEN \E u \in DOMAIN users, k \in 1 .. MaxResets :
                    /\ users[u].email = Lower(e)
                    /\ resp'.code = 200 /\ resp'.data = {k}
                    /\ users'[u].passwordResetToken = Sha256(k)
                    /\ users'[u].passwordResetExpires = now + ResetTTL
            ELSE resp' = NoSuchEmail /\ resp'.code = 404 /\ users' = users]_vars

\* C30 witness: forgotPassword was refused when every stored user is
\* inactive, one of them still holding the reset token it was given before.
ForgotRefusedForInactive ==
    /\ resp = NoSuchEmail
    /\ users # <<>>
    /\ \A u \in DOMAIN users : ~users[u].isActive
    /\ \E u \in DOMAIN users : users[u].passwordResetToken # NoToken

\* C31: createBid on a gig that is not stored or is not active fails with
\* 404 "Gig not found or is not active" and stores no bid; a createBid that
\* stores a bid appends exactly one, with status "pending", on a gig that is
\* stored and active.
CreateBidNeedsActiveGig ==
    [][/\ \A g \in GigIds, f \in UserIds :
            (/\ ~(GigFound(gigs, g) /\ gigs[g].isActive)
             /\ \E a \in Amounts : CreateBidCall(g, f, a))
            => resp' = GigNotActive /\ resp'.code = 404 /\ bids' = bids
       /\ Len(bids') > Len(bids)
            => /\ bids' = Append(bids, bids'[Len(bids')])
               /\ bids'[Len(bids')].status = "pending"
               /\ GigFound(gigs, bids'[Len(bids')].gigId)
               /\ gigs[bids'[Len(bids')].gigId].isActive
               /\ resp' = Created]_vars

\* C31 witness: createBid was refused with 404 while a gig that already has
\* a bid is stored but inactive, and another gig has been deleted.
BidOnInactiveGigRefused ==
    /\ resp = GigNotActive
    /\ \E g \in DOMAIN gigs :
          /\ gigs[g].exists /\ ~gigs[g].isActive
          /\ \E i \in DOMAIN bids : bids[i].gigId = g
    /\ \E g \in DOMAIN gigs : ~gigs[g].exists

\* C32: access and refresh tokens are not interchangeable.  A refresh token
\* sent as the bearer token is refused by authenticate with 401, and an
\* access token sent to refreshToken is refused with 401 and changes no
\* user, whoever the token was issued to and whatever the state.
TokensNotInterchangeable ==
    [][/\ \A tok \in issued :
            AuthenticateRequest(tok) => resp' = InvalidToken /\ resp'.code = 401
       /\ \A tok \in access :
            RefreshCall(tok)
            => resp' = InvalidRefresh /\ resp'.code = 401 /\ users' = users]_vars

\* C32 witness: a bearer token was refused as invalid while an active user
\* holds an unexpired refresh token, the one stored for it, and an
\* unexpired access token.
SwappedTokenRefused ==
    /\ resp = InvalidToken
    /\ \E u \in DOMAIN users :
          /\ users[u].isActive
          /\ users[u].refreshToken \in issued
          /\ VerifyRefresh(users[u].refreshToken, now)
          /\ \E tok \in access : tok[2] = u /\ VerifyAccess(tok, now)

\* C33: a login changes the store and issues tokens exactly as the same
\* login with any other value of rememberMe would have, started from the same
\* state; rememberMe decides only the cookie's lifetime, 30 days when true
\* and 1 day otherwise.
RememberMeOnlySetsCookie ==
    [][\A e \in RoleEmails, p \in Passwords, rm \in RememberMeInputs :
         LoginRequest(e, p, rm)
         => /\ \A other \in RememberMeInputs :
                 /\ users' = LoginOutcome(users, e, p, other, now).users
                 /\ issued' = issued \cup LoginOutcome(users, e, p, other, now).refresh
                 /\ access' = access \cup LoginOutcome(users, e, p, other, now).access
                 /\ resp'.code = LoginOutcome(users, e, p, other, now).resp.code
            /\ resp'.code = 200
                 => resp'.data = {IF rm = "true" THEN 30 * 24 * 60 * 60
                                  ELSE 24 * 60 * 60}]_vars

\* C33 witness: a login with rememberMe set has succeeded, storing a new
\* refresh token over the one the user was given a second earlier.
LoggedInRemembered ==
    /\ resp = [LoggedIn EXCEPT !.data = {CookieMaxAge("true")}]
    /\ \E u \in DOMAIN users :
          /\ users[u].lastLogin = now
          /\ users[u].refreshToken = GenerateRefreshToken(u, now)
          /\ GenerateRefreshToken(u, now - 1) \in issued

\* C34: optionalAuth never fails a request because of its token.  It calls
\* next() without an error for every bearer token, and sets req.user (to the
\* token's user and role) exactly when the token is signed with the access
\* secret, is not expired, and names a stored, active user; for a missing,
\* forged, expired or refresh token, or one naming a missing or inactive
\* user, the request stays anonymous.
OptionalAuthNeverFails ==
    [][\A tok \in Bearers :
         OptionalAuthRequest(tok)
         => /\ resp'.code = 200 /\ resp'.msg = "next"
            /\ resp'.data =
                 IF /\ tok # NoBearer
                    /\ tok[1] = "access"
                    /\ now < tok[4] + AccessTTL
                    /\ tok[2] \in DOMAIN users
                    /\ users[tok[2]].isActive
                 THEN {<<tok[2], tok[3]>>}
                 ELSE {}]_vars

\* C34 witness: a request went on anonymously while every access token
\* issued so far is expired or names a deactivated user, both cases present.
AnonymousDespiteToken ==
    /\ resp = Anonymous
    /\ \E tok \in access : ~VerifyAccess(tok, now)
    /\ \E tok \in access : VerifyAccess(tok, now) /\ ~users[tok[2]].isActive
    /\ \A tok \in access : ~VerifyAccess(tok, now) \/ ~users[tok[2]].isActive

\* C35: an access token issued before deactivateAccount stays valid after
\* it.  verifyToken accepts every access token the server issued for as long
\* as the token is unexpired, whether or not its user is still active, and
\* deactivateAccount does not change what verifyToken answers for any token.
AccessTokenOutlivesDeactivation ==
    /\ [][\A tok \in access :
            VerifyTokenCall(tok)
            => IF now < tok[4] + AccessTTL
               THEN resp'.code = 200 /\ resp'.data = {<<tok[2], tok[3]>>}
               ELSE resp' = InvalidToken /\ resp'.code = 401]_vars
    /\ [][\A u \in 1 .. MaxUsers :
            DeactivateCall(u)
            => \A tok \in access :
                  VerifyToken(users', tok, now') = VerifyToken(users, tok, now)]_vars

\* C35 witness: verifyToken has accepted a token while the only user it can
\* belong to is deactivated.
VerifiedAfterDeactivation ==
    /\ resp.code = 200 /\ resp.msg = "next"
    /\ \E pair \in resp.data :
          /\ pair[1] \in DOMAIN users
          /\ ~users[pair[1]].isActive
          /\ users[pair[1]].refreshToken = NoToken

\* C36: authenticate admits a request, setting req.user, exactly when its
\* access token verifies and names a user that is stored and active at that
\* moment; every other request is refused with 401 and without req.user.  In
\* particular a request that carries the unexpired access token of a user
\* whose deactivation has completed gets 401 "User no longer exists or is
\* inactive".
AuthenticateNeedsActiveUser ==
    [][\A tok \in Bearers :
         AuthenticateRequest(tok)
         => /\ IF /\ tok # NoBearer
                  /\ tok[1] = "access"
                  /\ now < tok[4] + AccessTTL
                  /\ tok[2] \in DOMAIN users
                  /\ users[tok[2]].isActive
               THEN resp'.code = 200 /\ resp'.data = {<<tok[2], tok[3]>>}
               ELSE resp'.code = 401 /\ resp'.data = {}
            /\ (/\ tok \in access
                /\ now < tok[4] + AccessTTL
                /\ ~users[tok[2]].isActive)
               => resp' = NotAuthenticated]_vars

\* C36 witness: a request was refused because of its user while every
\* stored user is deactivated and one of them has an unexpired access token.
DeactivatedBearerRefused ==
    /\ resp = NotAuthenticated
    /\ users # <<>>
    /\ \A u \in DOMAIN users : ~users[u].isActive
    /\ \E tok \in access : VerifyAccess(tok, now)

\* C37: a logout or deactivateAccount that lands between the lookup and the
\* save of a refreshToken or login call is not undone by that save: when a
\* refresh in flight finds the token it read already unset, or a login in
\* flight finds its user already deactivated, the user still has no stored
\* refresh token after the save.
LogoutSurvivesPendingSave ==
    [][\A r \in ReqIds :
         /\ (/\ AuthAt(r, "refresh", "save")
             /\ users[areq[r].uid].refreshToken = NoToken
             /\ RefreshSave(r))
            => users'[areq[r].uid].refreshToken = NoToken
         /\ (/\ AuthAt(r, "login", "save")
             /\ ~users[areq[r].uid].isActive
             /\ LoginSave(r))
            => users'[areq[r].uid].refreshToken = NoToken]_vars

\* C38: changePassword and resetPassword leave every user's stored refresh
\* token as it was, and refreshToken answers each token issued so far after
\* the call as it would have before it: a password change ends no session.
PasswordChangeKeepsSessions ==
    [][(\/ \E u \in 1 .. MaxUsers, cur \in Passwords, new \in Passwords :
             ChangePasswordCall(u, cur, new)
        \/ \E k \in ResetPresentable, p \in Passwords : ResetPasswordCall(k, p))
       => /\ \A v \in DOMAIN users :
               users'[v].refreshToken = users[v].refreshToken
          /\ \A tok \in issued :
               RefreshCheck(users', tok, now') = RefreshCheck(users, tok, now)]_vars

\* C38 witness: a password has been reset to a new one while the user's
\* refresh token, issued before, is stored and still accepted.
SessionSurvivesReset ==
    /\ resp = PasswordReset
    /\ \E u \in DOMAIN users :
          /\ users[u].password = HashOnSave(Plain("Pw2"), TRUE)
          /\ users[u].refreshToken \in issued
          /\ RefreshCheck(users, users[u].refreshToken, now) = Ok

\* C39: at most one reset token per user is usable at any time.  In every
\* state each user is found by resetPassword's lookup for at most one of the
\* tokens handed out; and a forgotPassword that succeeds for a user who
\* already holds an unexpired token replaces it, so that resetPassword with
\* the earlier token is refused with 400 although its ten minutes are not
\* over.
OneResetTokenPerUser ==
    /\ [](\A u \in DOMAIN users :
             Cardinality({k \in 1 .. MaxResets : u \in ResetUsers(users, k, now)}) <= 1)
    /\ [][\A e \in EmailInputs, u \in 1 .. MaxUsers, k \in 1 .. MaxResets :
            (/\ u \in ResetUsers(users, k, now)
             /\ users[u].email = Lower(e)
             /\ ForgotPasswordCall(e))
            => /\ resp'.code = 200 /\ k \notin resp'.data
               /\ users'[u].passwordResetExpires = now + ResetTTL
               /\ ResetCheck(users', k, now') = InvalidReset
               /\ InvalidReset.code = 400
               /\ \E new \in resp'.data : ResetCheck(users', new, now') = Ok]_vars

\* C39 witness: resetPassword was refused while the only user holds the
\* second token handed out, unexpired, and less than ten minutes have passed
\* since the first one was.
EarlierResetTokenRefused ==
    /\ resp = InvalidReset
    /\ Len(users) = 1
    /\ resets = 2
    /\ now < ResetTTL
    /\ 1 \in ResetUsers(users, 2, now)

\* C40: no operation writes status "pending" to an existing bid.  Under
\* every interleaving of createBid, updateBid, updateBidStatus and
\* withdrawBid a bid whose status is not "pending" does not become pending
\* again, the status updateBidStatus writes is one its schema admits, and
\* every stored bid's status is one of pending, accepted, rejected,
\* withdrawn.
BidNeverReturnsToPending ==
    /\ [](\A i \in DOMAIN bids :
             bids[i].status \in {"pending", "accepted", "rejected", "withdrawn"})
    /\ [][/\ \A i \in DOMAIN bids :
               bids[i].status # "pending" => bids'[i].status # "pending"
          /\ \A r \in ReqIds :
               UpdateBidStatusWrite(r) => breq[r].arg \in {"accepted", "rejected"}]_vars

\* C40 witness: a status request was refused by the schema while one bid is
\* accepted, another withdrawn, and a status write is still in flight.
PendingStatusRefused ==
    /\ resp = StatusNotAllowed
    /\ \E i \in DOMAIN bids : bids[i].status = "accepted"
    /\ \E i \in DOMAIN bids : bids[i].status = "withdrawn"
    /\ \E r \in ReqIds : At(r, "updateBidStatus", "write")

====
